---- MODULE Spec2Model ----
(***************************************************************************)
(* A model of the ROS kernel core: physical page allocator, recursive      *)
(* page-table mapper with copy-on-write fork, round-robin scheduler with   *)
(* per-process fd tables, and the syscall dispatcher.                      *)
(*                                                                         *)
(* Representation choices.                                                 *)
(*  - A 32-bit address is a pair <<page, off>> (page = addr >> 12,         *)
(*    off = addr & 0xfff); a 32-bit length is a pair of the same shape.    *)
(*  - A physical address is a frame number (paddr >> 12).                  *)
(*  - phys[f] is the content of frame f.  A data frame holds one modelled  *)
(*    cell (a tuple of integers); pagetable, page-directory and            *)
(*    meta-pagetable frames hold their entries.  Frames are copied whole.  *)
(*  - Kernel-space PTEs are fixed after boot (KernelPte); the PageInfo     *)
(*    array is the function info, its own COW backing is not modelled.     *)
(***************************************************************************)
EXTENDS Integers, Sequences, FiniteSets, TLC

----------------------------------------------------------------------------
(* Bounds of the model *)

\* highest physical frame the BIOS memory map offers to the bump allocator
MaxFrame == 24
\* pids are allocated up to this value; fork is not offered beyond it
MaxPid == 2
\* file descriptors are allocated below this value
MaxFd == 5
\* pipe() is offered while fewer pipes than this exist
MaxPipes == 1
\* a pipe write is offered while the pipe holds fewer bytes than this
MaxPipeLen == 1
\* number of console input bytes that arrive
MaxInput == 1
\* pages of kernel heap
MaxHeapPages == 3

----------------------------------------------------------------------------
(* Program constants *)

PAGE_SIZE == 4096
\* number of 4 KiB pages in the 32-bit address space
NumPages == 1048576
\* KERNEL_RELOC_BASE >> 12
KernelBasePage == 983040
\* PAGEINFO_BASE >> 12
PageInfoBasePage == 1046528
\* PAGETABLE_BASE >> 12 : window page of the page directory
PagetableBasePage == 1047552
\* get_pte_ptr(PAGETABLE_BASE) >> 12 : window page of the meta-pagetable
MetaPage == 1048575
\* frame of ZERO_PAGE (inside the kernel image)
ZeroFrame == 1
\* a frame of kernel memory set up at boot, identity-mapped above KERNEL_RELOC_BASE
KernelFrame == 2
\* first frame handed out by the physical allocator
PhysAllocStart == 3

\* user page-directory slots and pagetable slots that the model populates
UserPde == {1, 2}
PteIdx == {0, 1}
UserPages == {pde * 1024 + pte : pde \in UserPde, pte \in PteIdx}
\* a page-directory slot of kernel space for which MemoryMapper::init creates
\* no pagetable (the slot after the one of KERNEL_RELOC_BASE), and its pages
LatePde == {KernelBasePage \div 1024 + 1}
LatePages == {pde * 1024 + pte : pde \in LatePde, pte \in PteIdx}
\* the slots whose pagetables are created after boot, by map_ensure_pagetable
TablePde == UserPde \cup LatePde

PdeOf(page) == page \div 1024
PteOf(page) == page % 1024

----------------------------------------------------------------------------
(* Page-table entries *)

UnmappedPte == [present |-> FALSE, paddr |-> 0, writable |-> FALSE, user |-> FALSE]
MappingPte(paddr, flags) ==
    [present |-> TRUE, paddr |-> paddr, writable |-> flags.writable, user |-> flags.user]
MappingFlags(w, u) == [writable |-> w, user |-> u]
mapping_to_flags(mapping) == MappingFlags(mapping.writable, mapping.user)
with_writable(flags, w) == [flags EXCEPT !.writable = w]

\* frame contents
DataFrame(v) == [kind |-> "data", val |-> v]
EmptyPagetable == [kind |-> "pt", pte |-> [j \in PteIdx |-> UnmappedPte]]

\* AllocatedPageInfo bitfield; PhysPageInfo::default() is all zero bits
DefaultInfo == [rc |-> 0, cow |-> FALSE]

----------------------------------------------------------------------------
(* State *)

VARIABLES
    phys,          \* frame -> content (physical memory)
    info,          \* frame -> PhysPageInfo (refcount / cow, or freelist link in rc)
    palloc,        \* PhysAllocator: [next_addr, freelist_head]
    cr3,           \* active page directory (frame)
    kpt,           \* the kernel pagetable every address space shares: kernel page -> PTE,
                   \* for the pages the kernel maps and unmaps after boot
    kpanic         \* "" while the kernel runs, else the panic message

memvars == <<phys, info, palloc, cr3, kpt, kpanic>>

\* the MMU bundle as one value, threaded through the mapper operations
MemState ==
    [phys |-> phys, info |-> info, palloc |-> palloc, cr3 |-> cr3, kpt |-> kpt, panic |-> kpanic]

Panic(M, msg) == IF M.panic = "" THEN [M EXCEPT !.panic = msg] ELSE M

----------------------------------------------------------------------------
(* Physical allocator *)

\* BumpAllocator::alloc over a single usable region PhysAllocStart..MaxFrame
BumpAlloc(M) ==
    IF M.palloc.next_addr = 0
    THEN [m |-> M, r |-> 0]
    ELSE [m |-> [M EXCEPT !.palloc.next_addr =
                     IF M.palloc.next_addr + 1 <= MaxFrame THEN M.palloc.next_addr + 1 ELSE 0],
          r |-> M.palloc.next_addr]

\* alloc that goes to the bump allocator first and to the freelist when the
\* bump allocator has nothing left
Alloc_bump_first(M) ==
    IF M.palloc.next_addr # 0 THEN BumpAlloc(M)
    ELSE IF M.palloc.freelist_head # 0
    THEN LET paddr == M.palloc.freelist_head IN
         [m |-> [M EXCEPT !.palloc.freelist_head = M.info[paddr].rc \div PAGE_SIZE,
                           !.info[paddr] = DefaultInfo],
          r |-> paddr]
    ELSE [m |-> M, r |-> 0]

\* PhysAllocator::alloc : freelist head first, else the bump allocator; r = 0 is None
Alloc(M) ==
    IF M.palloc.freelist_head # 0
    THEN LET paddr == M.palloc.freelist_head IN
         [m |-> [M EXCEPT !.palloc.freelist_head = M.info[paddr].rc \div PAGE_SIZE,
                           !.info[paddr] = DefaultInfo],
          r |-> paddr]
    ELSE BumpAlloc(M)

\* free, once the PageInfo entry is writable, pushing whatever the refcount is
free_counted_any(M, paddr) ==
    IF M.panic # "" THEN M
    ELSE [M EXCEPT !.info[paddr] = [rc |-> M.palloc.freelist_head * PAGE_SIZE, cow |-> FALSE],
                   !.palloc.freelist_head = paddr]

\* free, once the PageInfo entry is writable: push on the freelist at refcount
\* 0, else decrement
free_counted(M, paddr) ==
    IF M.panic # "" THEN M
    ELSE IF M.info[paddr].rc = 0
    THEN [M EXCEPT !.info[paddr] = [rc |-> M.palloc.freelist_head * PAGE_SIZE, cow |-> FALSE],
                   !.palloc.freelist_head = paddr]
    ELSE [M EXCEPT !.info[paddr].rc = @ - 1]

----------------------------------------------------------------------------
(* Address translation *)

\* a frame of kernel memory set up at boot (image, boot-time pagetables)
KernelPage == KernelBasePage + KernelFrame
\* page-directory slots of the kernel pagetables that MemoryMapper::init creates
KernelPde == {PdeOf(KernelPage), PdeOf(PageInfoBasePage)}

\* frames of the first page directory and of its meta-pagetable
BootDirFrame == PhysAllocStart
BootMetaFrame == PhysAllocStart + 1

\* the kernel pages MemoryMapper::init maps one-to-one, read-write: physical
\* memory from 0 up to the last frame allocated during boot (the kernel image
\* with the zero page in it, then the boot pagetables)
KernelIdentityPages == KernelBasePage .. KernelBasePage + BootMetaFrame
\* the kernel pages find_unused_kernelspace hands out
HeapPages == KernelBasePage + BootMetaFrame + 1 .. KernelBasePage + BootMetaFrame + MaxHeapPages

\* the kernel pagetable MemoryMapper::init leaves behind: the heap is not
\* mapped, the PageInfo array is mapped read-only onto the zero page
BootKpt ==
    [page \in HeapPages \cup {PageInfoBasePage} |->
        IF page = PageInfoBasePage THEN MappingPte(ZeroFrame, MappingFlags(FALSE, FALSE))
        ELSE UnmappedPte]

\* PTEs of kernel space; none is user-accessible
KernelPte(M, page) ==
    IF page \in DOMAIN M.kpt THEN M.kpt[page]
    ELSE IF page \in KernelIdentityPages
    THEN MappingPte(page - KernelBasePage, MappingFlags(TRUE, FALSE))
    ELSE UnmappedPte

\* the meta-pagetable the CPU reaches through the last PDE of the active directory
MetaFrame(M) == M.phys[M.cr3].meta
\* the page directory as seen through the window at PAGETABLE_BASE
DirFrame(M) == M.phys[MetaFrame(M)].dir.paddr

\* get_pte_ptr(vaddr) >> 12
PtePtrPage(page) == PagetableBasePage + PdeOf(page)

\* the entry stored at get_pte_ptr(vaddr), read through the recursive window
ReadPte(M, page) ==
    IF page = MetaPage THEN M.phys[MetaFrame(M)].self
    ELSE IF page = PagetableBasePage THEN M.phys[MetaFrame(M)].dir
    ELSE IF page > PagetableBasePage
    THEN IF (page - PagetableBasePage) \in TablePde
         THEN M.phys[MetaFrame(M)].pte[page - PagetableBasePage]
         ELSE IF (page - PagetableBasePage) \in KernelPde
         THEN MappingPte(KernelFrame, MappingFlags(TRUE, FALSE))
         ELSE UnmappedPte
    ELSE IF PdeOf(page) \in TablePde /\ PteOf(page) \in PteIdx
    THEN M.phys[M.phys[MetaFrame(M)].pte[PdeOf(page)].paddr].pte[PteOf(page)]
    ELSE IF page >= KernelBasePage THEN KernelPte(M, page)
    ELSE UnmappedPte

\* MemoryMapper::get_mapping
RECURSIVE get_mapping(_, _)
get_mapping(M, page) ==
    IF page < MetaPage /\ ~get_mapping(M, PtePtrPage(page)).present THEN UnmappedPte
    ELSE IF page < 1024 THEN UnmappedPte
    ELSE ReadPte(M, page)

\* MemoryMapper::is_cow (the caller has checked that the page is mapped)
is_cow(M, page) ==
    LET Cow(src) == src = ZeroFrame \/ M.info[src].cow IN Cow(get_mapping(M, page).paddr)

\* the PTE the CPU uses for an access to this page: the recursive window is
\* walked through the meta-pagetable, user pages through the PDE of cr3
HwPte(M, page) ==
    IF page >= PagetableBasePage THEN ReadPte(M, page)
    ELSE IF PdeOf(page) \in TablePde /\ PteOf(page) \in PteIdx
            /\ M.phys[M.cr3].pde[PdeOf(page)] # 0
    THEN M.phys[M.phys[M.cr3].pde[PdeOf(page)]].pte[PteOf(page)]
    ELSE IF page >= KernelBasePage /\ PdeOf(page) \notin LatePde THEN KernelPte(M, page)
    ELSE UnmappedPte

\* core::ptr::copy from / to a mapped virtual page
ReadVirt(M, page) == M.phys[HwPte(M, page).paddr]
WriteVirt(M, page, content) == [M EXCEPT !.phys[HwPte(M, page).paddr] = content]

\* store a PTE at get_pte_ptr(vaddr)
WritePte(M, page, pte) ==
    IF M.panic # "" THEN M
    ELSE IF page = MetaPage THEN [M EXCEPT !.phys[MetaFrame(M)].self = pte]
    ELSE IF page = PagetableBasePage THEN [M EXCEPT !.phys[MetaFrame(M)].dir = pte]
    ELSE IF page > PagetableBasePage
    THEN IF (page - PagetableBasePage) \in TablePde
         THEN [M EXCEPT !.phys[MetaFrame(M)].pte[page - PagetableBasePage] = pte]
         ELSE M
    ELSE IF page \in DOMAIN M.kpt THEN [M EXCEPT !.kpt[page] = pte]
    ELSE IF PdeOf(page) \in TablePde /\ PteOf(page) \in PteIdx
    THEN [M EXCEPT !.phys[M.phys[MetaFrame(M)].pte[PdeOf(page)].paddr].pte[PteOf(page)] = pte]
    ELSE IF page >= KernelBasePage THEN M
    ELSE Panic(M, "page outside the modelled pagetables")

----------------------------------------------------------------------------
(* Memory mapper *)

\* MemoryMapper::map_no_alloc
map_no_alloc(M, paddr, page, flags) == WritePte(M, page, MappingPte(paddr, flags))

\* the page-directory entry update at the end of map_ensure_pagetable
SetPde(M, page) ==
    LET pde_index == PdeOf(page)
        Set(physptaddr) ==
            IF pde_index = 1023
            THEN IF M.phys[DirFrame(M)].meta # physptaddr
                 THEN [M EXCEPT !.phys[DirFrame(M)].meta = physptaddr] ELSE M
            ELSE IF pde_index \in TablePde
            THEN IF M.phys[DirFrame(M)].pde[pde_index] # physptaddr
                 THEN [M EXCEPT !.phys[DirFrame(M)].pde[pde_index] = physptaddr] ELSE M
            ELSE M
    IN IF M.panic # "" THEN M
       ELSE IF pde_index = 0 THEN Panic(M, "attempt to map a page in the null region")
       ELSE Set(get_mapping(M, PtePtrPage(page)).paddr)

RECURSIVE map_ensure_pagetable(_, _)
RECURSIVE map(_, _, _, _)
RECURSIVE move_page(_, _, _, _)
RECURSIVE cow_if_needed(_, _)
RECURSIVE Free(_, _)
RECURSIVE get_page_info_mut(_, _)

\* map_ensure_pagetable, no pagetable yet: the frame just allocated (a) is
\* mapped into the window and zeroed
new_pagetable(a, page) ==
    IF a.r = 0 THEN Panic(a.m, "out of memory")
    ELSE WriteVirt(map(a.m, a.r, PtePtrPage(page), MappingFlags(TRUE, FALSE)),
                   PtePtrPage(page), EmptyPagetable)

\* MemoryMapper::map_ensure_pagetable
map_ensure_pagetable(M, page) ==
    IF M.panic # "" THEN M
    ELSE IF ~get_mapping(M, PtePtrPage(page)).present
    THEN SetPde(new_pagetable(Alloc(M), page), page)
    ELSE SetPde(cow_if_needed(M, PtePtrPage(page)).m, page)

\* MemoryMapper::map
map(M, paddr, page, flags) ==
    map_no_alloc(map_ensure_pagetable(M, page), paddr, page, flags)

\* MemoryMapper::unmap
unmap(M, page) == WritePte(map_ensure_pagetable(M, page), page, UnmappedPte)

\* do_copy of move_page: the page is remapped onto dest_paddr and the saved
\* contents are written back through the new mapping
do_copy(M, page, dest_paddr, flags) ==
    IF M.panic # "" THEN M
    ELSE WriteVirt(map_no_alloc(M, dest_paddr, page, flags), page, ReadVirt(M, page))

\* MemoryMapper::move_page
move_page(M, page, dest_paddr, flags) ==
    do_copy(map_ensure_pagetable(M, page), page, dest_paddr, flags)

\* a copy that keeps its reference to the source frame
free_source_kept(M, src_paddr) == M

\* the source frame of a copy is released unless it is the zero page
free_source(M, src_paddr) == IF src_paddr = ZeroFrame THEN M ELSE Free(M, src_paddr)

\* cow_if_needed, shared or zero page: copy into the frame just allocated (a)
cow_copy(a, page, mapping) ==
    IF a.r = 0 THEN [m |-> Panic(a.m, "not enough memory for copy-on-write"), r |-> FALSE]
    ELSE [m |-> free_source(move_page(a.m, page, a.r,
                                      with_writable(mapping_to_flags(mapping), TRUE)),
                            mapping.paddr),
          r |-> TRUE]

\* cow_if_needed, last reference to a COW frame: its PageInfo is reset
own_info(M, paddr) == IF M.panic # "" THEN M ELSE [M EXCEPT !.info[paddr] = DefaultInfo]

\* MemoryMapper::cow_if_needed : [m |-> state after, r |-> returned bool]
cow_if_needed(M, page) ==
    LET mapping == get_mapping(M, page)
        inf == M.info[mapping.paddr]
    IN IF M.panic # "" THEN [m |-> M, r |-> FALSE]
       ELSE IF ~mapping.present THEN [m |-> Panic(M, "vaddr is unmapped"), r |-> FALSE]
       ELSE IF mapping.paddr = ZeroFrame \/ (inf.cow /\ inf.rc > 0)
       THEN cow_copy(Alloc(M), page, mapping)
       ELSE IF inf.cow /\ inf.rc = 0
       THEN [m |-> map(own_info(get_page_info_mut(M, mapping.paddr), mapping.paddr),
                       mapping.paddr, page, with_writable(mapping_to_flags(mapping), TRUE)),
             r |-> TRUE]
       ELSE [m |-> M, r |-> FALSE]

\* PhysAllocator::get_page_info_mut : the page of the PageInfo array that
\* describes paddr is made writable before the entry is handed out
get_page_info_mut(M, paddr) == cow_if_needed(M, PageInfoBasePage + paddr \div 1024).m

\* the reference count is incremented through the pointer get_page_info_mut returned
share_counted(M, paddr) ==
    IF M.panic # "" THEN M ELSE [M EXCEPT !.info[paddr].rc = @ + 1]

\* PhysAllocator::share
share(M, paddr) == share_counted(get_page_info_mut(M, paddr), paddr)

\* PhysAllocator::free : push on the freelist at refcount 0, else decrement
Free(M, paddr) ==
    IF M.panic # "" THEN M
    ELSE IF paddr < PhysAllocStart THEN Panic(M, "free: paddr < PHYSALLOC_START")
    ELSE free_counted(get_page_info_mut(M, paddr), paddr)

\* MemoryMapper::map_zeroed : count is decremented before it is tested, so
\* count = 0 wraps around instead of mapping nothing
RECURSIVE map_zeroed(_, _, _, _)
RECURSIVE map_zeroed_next(_, _, _, _)
map_zeroed(M, page, count, flags) ==
    map_zeroed_next(map(M, ZeroFrame, page, with_writable(flags, FALSE)), page, count, flags)
\* the loop test and step of map_zeroed, after the page has been mapped
map_zeroed_next(M, page, count, flags) ==
    IF M.panic # "" THEN M
    ELSE IF count = 1 THEN M
    ELSE IF count = 0 THEN Panic(M, "attempt to subtract with overflow")
    ELSE IF page + 1 >= NumPages THEN Panic(M, "virtual address out of range")
    ELSE map_zeroed(M, page + 1, count - 1, flags)

\* share_vaddr_cow, once the PageInfo entry is writable: the frame is marked
\* copy-on-write and counted once more
cow_counted(M, paddr, inf) ==
    IF M.panic # "" THEN M ELSE [M EXCEPT !.info[paddr] = [rc |-> inf.rc + 1, cow |-> TRUE]]

\* share_vaddr_cow that counts the reference but leaves the mapping as it was
share_vaddr_cow_writable(M, page) ==
    LET mapping == get_mapping(M, page)
        inf == M.info[mapping.paddr]
    IN IF M.panic # "" THEN M
       ELSE IF ~mapping.present THEN Panic(M, "page is not mapped")
       ELSE [get_page_info_mut(M, mapping.paddr)
               EXCEPT !.info[mapping.paddr] = [rc |-> inf.rc + 1, cow |-> TRUE]]

\* PhysAllocator::share_vaddr_cow
share_vaddr_cow(M, page) ==
    LET mapping == get_mapping(M, page)
        inf == M.info[mapping.paddr]
    IN IF M.panic # "" THEN M
       ELSE IF ~mapping.present THEN Panic(M, "page is not mapped")
       ELSE IF ~(inf.cow \/ inf.rc = 0)
       THEN Panic(M, "cannot mark a shared page as copy-on-write")
       ELSE map(cow_counted(get_page_info_mut(M, mapping.paddr), mapping.paddr, inf),
                mapping.paddr, page, with_writable(mapping_to_flags(mapping), FALSE))

\* ascending enumeration of a finite set of integers
RECURSIVE SortedSeq(_)
SortedSeq(S) ==
    IF S = {} THEN <<>>
    ELSE LET m == CHOOSE x \in S : \A y \in S : x <= y IN <<m>> \o SortedSeq(S \ {m})

\* MemoryMapper::find_unused_kernelspace : the lowest block of `pages` unmapped
\* kernel pages, 0 for None (no block among the pages of the model)
find_unused_kernelspace(M, pages) ==
    LET Unused(base) == \A q \in base .. base + pages - 1 :
                            q \in HeapPages /\ ~get_mapping(M, q).present
        Found == {base \in HeapPages : Unused(base)}
    IN IF Found = {} THEN 0 ELSE CHOOSE base \in Found : \A b \in Found : base <= b

\* first loop of MemoryMapper::fork : every mapped user page becomes COW
RECURSIVE ForkSharePages(_, _)
ForkSharePages(M, pages) ==
    IF pages = <<>> \/ M.panic # "" THEN M
    ELSE ForkSharePages(IF M.phys[DirFrame(M)].pde[PdeOf(Head(pages))] # 0
                           /\ get_mapping(M, Head(pages)).present
                        THEN share_vaddr_cow(M, Head(pages)) ELSE M,
                        Tail(pages))

\* second loop of MemoryMapper::fork : every user pagetable becomes COW
RECURSIVE ForkSharePagetables(_, _)
ForkSharePagetables(M, slots) ==
    IF slots = <<>> \/ M.panic # "" THEN M
    ELSE ForkSharePagetables(IF get_mapping(M, PagetableBasePage + Head(slots)).present
                             THEN share_vaddr_cow(M, PagetableBasePage + Head(slots)) ELSE M,
                             Tail(slots))

\* MemoryMapper::fork, last part: the window has been moved onto the copy of the
\* directory (new_cr3).  The copy is pointed at the new meta-pagetable, the new
\* meta-pagetable is finished through the window of the old directory, cr3 is
\* switched, the window restored and the temporary alias dropped.
fork_switch(M, old_cr3, new_cr3, new_meta, tmp_vaddr, cr3_flags) ==
    IF M.panic # "" THEN [m |-> M, r |-> 0]
    ELSE [m |-> unmap(map_no_alloc(
                        [unmap(map_no_alloc(
                                 [M EXCEPT !.phys[HwPte(M, PagetableBasePage).paddr].meta =
                                               new_meta],
                                 old_cr3, PagetableBasePage, cr3_flags),
                               tmp_vaddr)
                           EXCEPT !.cr3 = new_cr3],
                        new_cr3, PagetableBasePage, cr3_flags),
                      tmp_vaddr),
          r |-> new_cr3]

\* MemoryMapper::fork, middle part: the new meta-pagetable is mapped at tmp_vaddr;
\* it receives a copy of the old one with its self-entry replaced, then the new
\* page directory is allocated and the window moved onto it
fork_directory(M, new_meta, tmp_vaddr, flags) ==
    LET a == Alloc([M EXCEPT !.phys[new_meta] =
                       [ReadVirt(M, MetaPage) EXCEPT !.self = MappingPte(new_meta, flags)]])
        cr3_flags == mapping_to_flags(get_mapping(a.m, PagetableBasePage))
    IN IF M.panic # "" THEN [m |-> M, r |-> 0]
       ELSE IF a.r = 0 THEN [m |-> Panic(a.m, "out of memory"), r |-> 0]
       ELSE fork_switch(move_page(a.m, PagetableBasePage, a.r, cr3_flags),
                        M.cr3, a.r, new_meta, tmp_vaddr, cr3_flags)

\* MemoryMapper::fork, after the two sharing loops: the new meta-pagetable is
\* allocated and mapped at an unused kernel address
fork_meta(M) ==
    LET a == Alloc(M)
        flags == mapping_to_flags(get_mapping(M, MetaPage))
        tmp_vaddr == find_unused_kernelspace(a.m, 1)
    IN IF M.panic # "" THEN [m |-> M, r |-> 0]
       ELSE IF a.r = 0 THEN [m |-> Panic(a.m, "out of memory"), r |-> 0]
       ELSE IF tmp_vaddr = 0 THEN [m |-> Panic(a.m, "out of virtual address space"), r |-> 0]
       ELSE fork_directory(map(a.m, a.r, tmp_vaddr, flags), a.r, tmp_vaddr, flags)

\* MemoryMapper::fork : [m |-> state after, r |-> new cr3]
mapper_fork(M) ==
    fork_meta(ForkSharePagetables(ForkSharePages(M, SortedSeq(UserPages)), SortedSeq(UserPde)))

----------------------------------------------------------------------------
(* 32-bit quantities as <<page, off>> pairs *)

U32Gt(a, b) == a[1] > b[1] \/ (a[1] = b[1] /\ a[2] > b[2])
\* usize::wrapping_neg
WrappingNeg(x) ==
    IF x[2] = 0 THEN <<(NumPages - x[1]) % NumPages, 0>>
    ELSE <<NumPages - 1 - x[1], PAGE_SIZE - x[2]>>
\* size.saturating_sub(PAGE_SIZE)
SaturatingSubPage(x) == IF x[1] >= 1 THEN <<x[1] - 1, x[2]>> ELSE <<0, 0>>

\* the while loop of MemoryMapper::validate_range; the walk advances vaddr by
\* PAGE_SIZE whatever its offset.  overflow_checks is the build's setting for
\* checked arithmetic on `vaddr += PAGE_SIZE`.
RECURSIVE validate_range_loop(_, _, _, _, _)
validate_range_loop(M, page, size, flags, overflow_checks) ==
    LET mapping == get_mapping(M, page) IN
    IF size = <<0, 0>> THEN "true"
    ELSE IF ~mapping.present THEN "false"
    ELSE IF flags.user /\ ~mapping.user THEN "false"
    ELSE IF flags.writable /\ ~(mapping.user \/ is_cow(M, page)) THEN "false"
    ELSE IF page + 1 >= NumPages
    THEN IF overflow_checks THEN "panic"
         ELSE validate_range_loop(M, 0, SaturatingSubPage(size), flags, overflow_checks)
    ELSE validate_range_loop(M, page + 1, SaturatingSubPage(size), flags, overflow_checks)

\* MemoryMapper::validate_range : "true", "false" or "panic"
mapper_validate_range(M, vaddr, size, flags, overflow_checks) ==
    IF size # <<0, 0>> /\ U32Gt(vaddr, WrappingNeg(size)) THEN "false"
    ELSE validate_range_loop(M, vaddr[1], size, flags, overflow_checks)

----------------------------------------------------------------------------
(* Memory accesses and the page-fault handler *)

\* a page_fault that does not test whether the page is user-accessible
page_fault_mmu_any_user(M, page, code) ==
    LET mapping == get_mapping(M, page) IN
    IF ~code.present THEN [m |-> M, r |-> FALSE]
    ELSE IF ~mapping.present THEN [m |-> Panic(M, "unwrap on None"), r |-> FALSE]
    ELSE IF ~mapping.writable /\ code.write THEN cow_if_needed(M, page)
    ELSE [m |-> M, r |-> FALSE]

\* the MMU part of page_fault : [m |-> state after, r |-> the fault was handled]
page_fault_mmu(M, page, code) ==
    LET mapping == get_mapping(M, page) IN
    IF ~code.present THEN [m |-> M, r |-> FALSE]
    ELSE IF ~mapping.present THEN [m |-> Panic(M, "unwrap on None"), r |-> FALSE]
    ELSE IF ~mapping.user /\ code.user THEN [m |-> M, r |-> FALSE]
    ELSE IF ~mapping.writable /\ code.write THEN cow_if_needed(M, page)
    ELSE [m |-> M, r |-> FALSE]

\* does the CPU raise a page fault for this access (CR0.WP set: supervisor
\* writes honour the read-only bit)
Faults(M, page, write, user) ==
    LET hw == HwPte(M, page) IN
    \/ ~hw.present
    \/ user /\ ~hw.user
    \/ write /\ ~hw.writable

\* a store to a virtual page, retried after every handled page fault :
\* [m |-> state after, ok |-> the store was performed]
RECURSIVE Store(_, _, _, _)
RECURSIVE StoreFaulted(_, _, _, _)
Store(M, page, content, user) ==
    IF M.panic # "" THEN [m |-> M, ok |-> FALSE]
    ELSE IF ~Faults(M, page, TRUE, user)
    THEN [m |-> WriteVirt(M, page, content), ok |-> TRUE]
    ELSE StoreFaulted(page_fault_mmu(M, page, [present |-> HwPte(M, page).present,
                                               write |-> TRUE, user |-> user]),
                      page, content, user)
\* the page-fault handler has returned (pf): the instruction is restarted, or
\* the fault goes to the caller
StoreFaulted(pf, page, content, user) ==
    IF pf.r THEN Store(pf.m, page, content, user) ELSE [m |-> pf.m, ok |-> FALSE]

----------------------------------------------------------------------------
(* Boot *)

\* the address space MemoryMapper::init leaves behind: no user mapping, the
\* directory and the meta-pagetable mapped in the recursive window
BootMem ==
    [phys |-> [f \in 1 .. MaxFrame |->
                 IF f = BootDirFrame
                 THEN [kind |-> "pd", pde |-> [i \in TablePde |-> 0], meta |-> BootMetaFrame]
                 ELSE IF f = BootMetaFrame
                 THEN [kind |-> "meta",
                       pte |-> [i \in TablePde |-> UnmappedPte],
                       dir |-> MappingPte(BootDirFrame, MappingFlags(TRUE, FALSE)),
                       self |-> MappingPte(BootMetaFrame, MappingFlags(TRUE, FALSE))]
                 ELSE DataFrame(<<0>>)],
     info |-> [f \in 1 .. MaxFrame |-> DefaultInfo],
     palloc |-> [next_addr |-> PhysAllocStart + 2, freelist_head |-> 0],
     cr3 |-> BootDirFrame,
     kpt |-> BootKpt,
     panic |-> ""]

\* pages of the first user image
ImageDataPage == 1024
ImageBssPage == 1025
StackPage == 2048
\* a user page that is never mapped
HolePage == 2049

\* Elf32::load and the stack set-up of main: every segment and the stack are
\* mapped with map_zeroed, then the file bytes are copied in
LoadedMem ==
    map_zeroed(Store(map_zeroed(BootMem, ImageDataPage, 2, MappingFlags(TRUE, TRUE)),
                     ImageDataPage, DataFrame(<<7>>), FALSE).m,
               StackPage, 1, MappingFlags(TRUE, TRUE))

\* MemoryMapper::find_unused_userspace for a block of one page, over the user
\* pages of the model: the lowest page without a mapping, 0 for None
find_unused_userspace(M) ==
    LET unused == {page \in UserPages : ~get_mapping(M, page).present}
    IN IF unused = {} THEN 0 ELSE CHOOSE page \in unused : \A q \in unused : page <= q

\* the tail of Elf32::load: the user stack is mapped where find_unused_userspace
\* found room (stack is that page)
load_stack(M, stack) ==
    IF M.panic # "" THEN M
    ELSE IF stack = 0 THEN Panic(M, "not enough address space for user stack")
    ELSE map_zeroed(M, stack, 1, MappingFlags(TRUE, TRUE))

\* the segments are in place (M): the stack follows
load_segments_done(M) == load_stack(M, find_unused_userspace(M))

\* Elf32::load in the address space of the caller: every segment is mapped
\* with map_zeroed over whatever the pages held, the file bytes are copied in,
\* and a stack is mapped
Elf32_load(M) ==
    load_segments_done(Store(map_zeroed(M, ImageDataPage, 2, MappingFlags(TRUE, TRUE)),
                             ImageDataPage, DataFrame(<<7>>), FALSE).m)

----------------------------------------------------------------------------
(* Files: Console, Null, PipeRead, PipeWrite *)

\* fd::PIPE_BUF_LEN
PIPE_BUF_LEN == 65536

\* a process-table entry's fd table maps an fd to a file object (an
\* Rc<RefCell<dyn File>>); file object 1 is the console created by main
ConsoleFile == 1

\* a file object that lives by the descriptors of the running process alone
FileAlive_current(S, f) ==
    \E fd \in DOMAIN S.processes[S.current_process].fdtable :
        S.processes[S.current_process].fdtable[fd] = f

\* the file object is alive while some fd table holds a reference to it
FileAlive(S, f) ==
    \E pid \in DOMAIN S.processes :
        \E fd \in DOMAIN S.processes[pid].fdtable : S.processes[pid].fdtable[fd] = f

\* a count that includes the halves no descriptor refers to any more
StrongCount_all(S, F, f) ==
    Cardinality({g \in DOMAIN F : F[g].pipe = F[f].pipe /\ F[g].kind \in {"piperead", "pipewrite"}})

\* Rc::strong_count of the pipe buffer a pipe half refers to: one per live half
StrongCount(S, F, f) ==
    Cardinality({g \in DOMAIN F : F[g].pipe = F[f].pipe /\ F[g].kind \in {"piperead", "pipewrite"}
                                   /\ FileAlive(S, g)})

\* a can_read that does not look at the write half
can_read_nonempty(S, F, P, C, f) ==
    IF F[f].kind = "console" THEN C.rpos # C.wpos
    ELSE IF F[f].kind = "piperead" THEN P[F[f].pipe] # <<>>
    ELSE TRUE

\* File::can_read
can_read(S, F, P, C, f) ==
    IF F[f].kind = "console" THEN C.rpos # C.wpos
    ELSE IF F[f].kind = "piperead" THEN P[F[f].pipe] # <<>> \/ StrongCount(S, F, f) = 1
    ELSE TRUE

\* a can_write that lets a write on a full pipe through
can_write_always(S, F, P, C, f) == TRUE

\* File::can_write
can_write(S, F, P, C, f) ==
    IF F[f].kind = "pipewrite"
    THEN Len(P[F[f].pipe]) # PIPE_BUF_LEN \/ StrongCount(S, F, f) = 1
    ELSE TRUE

\* File::can_access
can_access(S, F, P, C, f, ty) ==
    IF ty = "Read" THEN can_read(S, F, P, C, f) ELSE can_write(S, F, P, C, f)

----------------------------------------------------------------------------
(* Scheduler *)

NoBlock == [kind |-> "none", fd |-> 0, access |-> "Read", pid |-> 0, continuation |-> "noop"]
FileBlock(fd, ty) == [kind |-> "file", fd |-> fd, access |-> ty, pid |-> 0, continuation |-> "noop"]
ProcessBlock(pid) == [kind |-> "process", fd |-> 0, access |-> "Read", pid |-> pid, continuation |-> "noop"]

\* a can_unblock that lets every blocked process run
can_unblock_always(S, F, P, C, pid, reason) == TRUE

\* a can_unblock that never lets a process waiting for another one run
can_unblock_files(S, F, P, C, pid, reason) ==
    IF reason.kind = "file"
    THEN can_access(S, F, P, C, S.processes[pid].fdtable[reason.fd], reason.access)
    ELSE FALSE

\* Scheduler::can_unblock
can_unblock(S, F, P, C, pid, reason) ==
    IF reason.kind = "file"
    THEN can_access(S, F, P, C, S.processes[pid].fdtable[reason.fd], reason.access)
    ELSE ~(reason.pid \in DOMAIN S.processes)

\* Scheduler::add_process
add_process(S, env) ==
    LET new_pid == S.next_pid
        proc == [env |-> env, next |-> S.first, prev |-> 0, fdtable |-> <<>>,
                 block |-> NoBlock, next_fd |-> 0]
        procs1 == (new_pid :> proc) @@ S.processes
        procs2 == IF S.first # 0 THEN [procs1 EXCEPT ![S.first].prev = new_pid] ELSE procs1
    IN [S EXCEPT !.next_pid = new_pid + 1, !.processes = procs2, !.first = new_pid]

\* a remove_process that leaves the cursor where it was
remove_process_cursor_kept(S, pid) ==
    LET process == S.processes[pid]
        rest == [q \in (DOMAIN S.processes) \ {pid} |-> S.processes[q]]
        first1 == IF S.first = pid THEN process.next ELSE S.first
        rest1 == IF process.next # 0 THEN [rest EXCEPT ![process.next].prev = process.prev]
                 ELSE rest
        rest2 == IF process.prev # 0 THEN [rest1 EXCEPT ![process.prev].next = process.next]
                 ELSE rest1
    IN [S EXCEPT !.processes = rest2, !.first = first1]

\* a remove_process that leaves the predecessor's next link as it was
remove_process_unlinked(S, pid) ==
    LET process == S.processes[pid]
        rest == [q \in (DOMAIN S.processes) \ {pid} |-> S.processes[q]]
        first1 == IF S.first = pid THEN process.next ELSE S.first
        next1 == IF S.next = pid
                 THEN (IF process.next # 0 THEN process.next ELSE first1)
                 ELSE S.next
        rest1 == IF process.next # 0 THEN [rest EXCEPT ![process.next].prev = process.prev]
                 ELSE rest
    IN [S EXCEPT !.processes = rest1, !.first = first1, !.next = next1]

\* Scheduler::remove_process
remove_process(S, pid) ==
    LET process == S.processes[pid]
        rest == [q \in (DOMAIN S.processes) \ {pid} |-> S.processes[q]]
        first1 == IF S.first = pid THEN process.next ELSE S.first
        next1 == IF S.next = pid
                 THEN (IF process.next # 0 THEN process.next ELSE first1)
                 ELSE S.next
        rest1 == IF process.next # 0 THEN [rest EXCEPT ![process.next].prev = process.prev]
                 ELSE rest
        rest2 == IF process.prev # 0 THEN [rest1 EXCEPT ![process.prev].next = process.next]
                 ELSE rest1
    IN [S EXCEPT !.processes = rest2, !.first = first1, !.next = next1]

\* Scheduler::get_fd : the file object, or 0 for None
get_fd(S, pid, fd) ==
    IF pid \in DOMAIN S.processes /\ fd \in DOMAIN S.processes[pid].fdtable
    THEN S.processes[pid].fdtable[fd] ELSE 0

\* Fd is u32. The largest descriptor, 0xFFFFFFFF, is held as the value its 32
\* bits have as a signed integer (the integers of the model checker are 32
\* bits wide); every other descriptor of the model is below 2^31
FdMax == -1

\* the u32 sum fd + 1 of a build without overflow checks
FdSucc(fd) == IF fd = FdMax THEN 0 ELSE fd + 1

\* Scheduler::set_fd (file = 0 is None and removes the entry); fd + 1 is a u32
\* sum, which wraps here: the caller panics instead in a build that checks
set_fd(S, pid, fd, file) ==
    LET process == S.processes[pid]
        table == IF file # 0
                 THEN (fd :> file) @@ process.fdtable
                 ELSE [g \in (DOMAIN process.fdtable) \ {fd} |-> process.fdtable[g]]
        sum == FdSucc(fd)
        next_fd == IF process.next_fd > sum THEN process.next_fd ELSE sum
    IN [S EXCEPT !.processes[pid].fdtable = table, !.processes[pid].next_fd = next_fd]

\* Scheduler::new_fd : [s |-> scheduler after, fd |-> the new descriptor]
new_fd(S, pid, file) ==
    LET fd == S.processes[pid].next_fd IN
    [s |-> [S EXCEPT !.processes[pid].next_fd = fd + 1,
                     !.processes[pid].fdtable = (fd :> file) @@ S.processes[pid].fdtable],
     fd |-> fd]

\* Scheduler::block
block(S, pid, reason, continuation) ==
    [S EXCEPT !.processes[pid].block = [reason EXCEPT !.continuation = continuation]]

\* Scheduler::save_current_process
save_current_process(S, trap_frame) ==
    [S EXCEPT !.processes[S.current_process].env.trap_frame = trap_frame]

----------------------------------------------------------------------------
(* Kernel state *)

\* the Global statics of the model: the interrupt table (main leaks its
\* guard), the MMU bundle and the scheduler
Globals == {"IDT", "MMU", "SCHEDULER"}

\* Global::new, Global::lazy
Global_new == [taken |-> FALSE, resource |-> "Initialized"]
Global_lazy == [taken |-> FALSE, resource |-> "Initializer"]

\* Global::take: the swap of the flag is one instruction; `some` tells whether
\* a guard is returned
take_unguarded(G) ==
    [cell |-> [taken |-> TRUE, resource |-> "Initialized"], some |-> TRUE]

take(G) ==
    IF ~G.taken THEN [cell |-> [taken |-> TRUE, resource |-> "Initialized"], some |-> TRUE]
    ELSE [cell |-> [G EXCEPT !.taken = TRUE], some |-> FALSE]

\* Drop for GlobalGuard
drop(G) == [G EXCEPT !.taken = FALSE]

\* the statics as the image holds them, and after main has run: the guard of
\* the interrupt table is leaked, the other statics have been used and released
GlobalsAtBoot ==
    [cells |-> [g \in Globals |-> IF g = "SCHEDULER" THEN Global_new ELSE Global_lazy],
     flows |-> << <<>> >>]
GlobalsBooted ==
    [cells |-> [g \in Globals |-> [taken |-> g = "IDT", resource |-> "Initialized"]],
     flows |-> << <<>> >>]

\* fd::CONSOLE_BUFSIZE
CONSOLE_BUFSIZE == 4096

VARIABLES
    scheduler,     \* Scheduler: [processes, first, next, current_process, next_pid]
    files,         \* file object -> [kind, pipe]
    pipes,         \* pipe buffer -> queued bytes
    console,       \* CONSOLE_BUFFER: [rpos, epos, wpos, buf]
    frame,         \* the trap frame the kernel entry stub pushed and will pop
    kmode,         \* "user": a process runs; "cont": a continuation is about to be
                   \* invoked; "spin": load_next_process loops; "panic"
    pending,       \* continuation returned by schedule / kill_current_process
    iflag,         \* EFLAGS.IF while in the kernel (trap gate: set, interrupt gate: clear)
    timer_fired,   \* TIMER_FIRED: the timer fired while in the kernel
    globals,       \* the Global statics and the guards each control flow holds: [cells, flows]
    shadow,        \* history: pid -> page -> content the process last stored or inherited
    last           \* history: what the last kernel entry did

vars == <<phys, info, palloc, cr3, kpt, kpanic, scheduler, files, pipes, console, frame,
          kmode, pending, iflag, timer_fired, globals, shadow, last>>

\* the whole kernel as one value, threaded through the handlers;
\* overflow_checks is how the kernel was built: an integer overflow panics
\* (TRUE) or wraps (FALSE)
KState ==
    [mem |-> MemState, sched |-> scheduler, files |-> files, pipes |-> pipes,
     console |-> console, frame |-> frame, kmode |-> kmode, pending |-> pending,
     iflag |-> iflag, timer_fired |-> timer_fired, shadow |-> shadow, last |-> last,
     overflow_checks |-> TRUE]

\* panic!() / a failed assert! / unwrap on None
KPanic(K, msg) == [K EXCEPT !.mem = Panic(K.mem, msg), !.kmode = "panic"]

\* ConsoleBuffer::handle_echo
handle_echo(C) == [C EXCEPT !.epos = C.wpos]

\* the loop of Scheduler::load_next_process; left examines at most that many
\* entries before the state of the loop repeats (kmode "spin")
RECURSIVE load_next_loop(_, _)
load_next_loop(K, left) ==
    IF K.sched.next = 0 THEN KPanic(K, "all processes exited")
    ELSE
    LET S == K.sched
        pid == S.next
        process == S.processes[pid]
        blocked == process.block.kind # "none"
                     /\ ~can_unblock(S, K.files, K.pipes, K.console, pid, process.block)
        continuation == IF process.block.kind # "none" THEN process.block.continuation
                        ELSE "noop"
        wrapped == process.next = 0
        K1 == [K EXCEPT !.sched.next = IF wrapped THEN S.first ELSE process.next,
                        !.console = IF wrapped THEN handle_echo(@) ELSE @]
    IN IF ~blocked
       THEN [K1 EXCEPT !.sched.processes[pid].block = NoBlock,
                       !.sched.current_process = pid,
                       !.mem.cr3 = process.env.cr3,
                       !.frame = process.env.trap_frame,
                       !.pending = continuation,
                       !.kmode = "cont"]
       ELSE IF left = 1 THEN [K1 EXCEPT !.kmode = "spin"]
       ELSE load_next_loop(K1, left - 1)

\* Scheduler::load_next_process
load_next_process(K) == load_next_loop(K, Cardinality(DOMAIN K.sched.processes))

\* a schedule that puts the cursor back on the process that was running
schedule_again(K) ==
    load_next_process([K EXCEPT !.console = handle_echo(@),
                                !.sched = [save_current_process(K.sched, K.frame)
                                             EXCEPT !.next = K.sched.current_process]])

\* Scheduler::schedule
schedule(K) ==
    load_next_process([K EXCEPT !.console = handle_echo(@),
                                !.sched = save_current_process(K.sched, K.frame)])

\* Scheduler::kill_current_process
kill_current_process(K) ==
    LET pid == K.sched.current_process IN
    load_next_process([K EXCEPT !.sched = remove_process(K.sched, pid),
                                !.shadow = [q \in (DOMAIN K.shadow) \ {pid} |-> K.shadow[q]]])

\* what a syscall handler returns: Ok(val) (val = <<>> for the unit type) or Err(block)
Ok(K, val) == [k |-> K, block |-> NoBlock, val |-> val]
Err(K, reason) == [k |-> K, block |-> reason, val |-> <<>>]

\* Scheduler::fork, after MemoryMapper::fork (f) : Ok(the child's pid)
fork_process(K, f) ==
    LET S == K.sched
        cur == S.current_process
        new_pid == S.next_pid
    IN IF f.m.panic # "" THEN Ok([K EXCEPT !.mem = f.m, !.kmode = "panic"], <<>>)
       ELSE Ok([K EXCEPT
                  !.mem = f.m,
                  !.sched = [add_process([S EXCEPT !.processes[cur].env.cr3 = f.r],
                                         [trap_frame |-> K.frame,
                                          cr3 |-> S.processes[cur].env.cr3])
                               EXCEPT !.processes[new_pid].fdtable = S.processes[cur].fdtable],
                  !.shadow = (new_pid :> K.shadow[cur]) @@ K.shadow],
               <<new_pid>>)

\* Scheduler::fork
scheduler_fork(K) ==
    IF K.kmode = "panic" THEN Ok(K, <<>>) ELSE fork_process(K, mapper_fork(K.mem))

----------------------------------------------------------------------------
(* Kernel accesses to user-supplied pointers *)

\* the pages a range of size bytes (size < 2^31) starting at ptr touches
PagesOf(ptr, size) ==
    IF size = 0 THEN {} ELSE ptr[1] .. (ptr[1] + (ptr[2] + size - 1) \div PAGE_SIZE)

\* the first len bytes of a modelled cell (bytes past the cell are zero)
CellBytes(content, len) ==
    [i \in 1 .. len |-> IF content.kind = "data" /\ i <= Len(content.val)
                        THEN content.val[i] ELSE 0]

\* a kernel-mode read of size bytes at ptr : [ok |-> no page fault, val |-> first cell]
KRead(K, ptr, size) ==
    [ok |-> \A page \in PagesOf(ptr, size) : ~Faults(K.mem, page, FALSE, FALSE),
     val |-> IF HwPte(K.mem, ptr[1]).present THEN ReadVirt(K.mem, ptr[1])
             ELSE DataFrame(<<>>)]

\* a kernel-mode write at ptr: every page touched goes through the page-fault
\* handler, val overwrites the leading bytes of the first page's cell.  A page fault
\* the handler does not resolve is a panic (the faulting frame is the kernel's).
RECURSIVE KWritePages(_, _, _, _)
RECURSIVE KWriteStored(_, _, _, _, _, _)
KWritePages(K, pages, first, val) ==
    LET page == Head(pages)
        old == ReadVirt(K.mem, page)
        content == IF page = first /\ old.kind = "data"
                   THEN DataFrame(val \o SubSeq(old.val, Len(val) + 1, Len(old.val)))
                   ELSE old
    IN IF pages = <<>> \/ K.kmode = "panic" THEN K
       ELSE IF page >= KernelBasePage /\ HwPte(K.mem, page).present
                                      /\ ~HwPte(K.mem, page).writable
       THEN KPanic(K, "kernel PageInfo array overwritten through a user pointer")
       ELSE KWriteStored(K, Store(K.mem, page, content, FALSE), content, pages, first, val)
\* the store to the first of pages has run (st)
KWriteStored(K, st, content, pages, first, val) ==
    LET cur == K.sched.current_process
        page == Head(pages)
    IN IF ~st.ok THEN KPanic([K EXCEPT !.mem = st.m], "Unhandled pagefault")
       ELSE KWritePages([K EXCEPT !.mem = st.m,
                                  !.shadow = IF cur \in DOMAIN K.shadow
                                                /\ page \in DOMAIN K.shadow[cur]
                                             THEN [@ EXCEPT ![cur][page] = content] ELSE @],
                        Tail(pages), first, val)

KWrite(K, ptr, size, val) == KWritePages(K, SortedSeq(PagesOf(ptr, size)), ptr[1], val)

----------------------------------------------------------------------------
(* Syscall argument validation (syscall_kernel.rs) *)

\* SyscallId
SysExit == 0
SysYieldCpu == 1
SysRead == 2
SysWrite == 3
SysClose == 4
SysPipe == 5
SysFork == 6
SysExec == 7
SysWait == 8
SysDup2 == 9
SysNullFd == 10

\* size_of / align_of the argument type A and the result type T of each syscall,
\* indexed by SyscallId + 1
ArgSize == <<0, 0, 12, 12, 4, 0, 0, 4, 4, 8, 0>>
ResultSize == <<0, 0, 8, 8, 0, 8, 4, 1, 0, 0, 4>>
ResultAlign == <<1, 1, 4, 4, 1, 4, 4, 1, 1, 1, 4>>

\* validate_range of syscall_kernel.rs: the flags carry is_write only
validate_range(M, start, len, is_write) ==
    mapper_validate_range(M, start, <<0, len>>, MappingFlags(is_write, FALSE), TRUE)

\* validate_ptr
validate_ptr(M, ptr, size, align, is_write) ==
    IF ptr[2] % align # 0 THEN "false" ELSE validate_range(M, ptr, size, is_write)

\* A::validate(arg_ptr) for the argument type of syscall id: "true", "false",
\* "panic", or "fault" when reading through arg_ptr page-faults in the kernel.
\* Only ReadArg and WriteArg read through the pointer (the buf field).
Arg_validate(K, id) ==
    IF id \in {SysRead, SysWrite}
    THEN IF ~KRead(K, K.frame.ebx, ArgSize[id + 1]).ok THEN "fault"
         ELSE validate_ptr(K.mem, K.frame.arg.buf, K.frame.arg.len, 1, id = SysRead)
    ELSE "true"

----------------------------------------------------------------------------
(* Syscall handlers (syscall_kernel.rs) *)

Min(a, b) == IF a < b THEN a ELSE b

\* what `last` holds when the kernel is entered
\*   path      : the caller of schedule / kill_current_process whose returned
\*               continuation has not been invoked yet, else "none"
\*   unchecked : the syscall handler ran with a pointer (ebx, ecx or a buffer)
\*               that is not mapped and user-accessible
\*   ebx_unchecked : the dispatcher read through an argument pointer that is
\*               not mapped and user-accessible
NoEntry == [path |-> "none", unchecked |-> FALSE, ebx_unchecked |-> FALSE]

\* the registers of a process running in userspace, as far as the model keeps them
NoArg == [fd |-> 0, fd2 |-> 0, buf |-> <<0, 0>>, len |-> 0]
UserFrame == [eax |-> 0, ebx |-> <<0, 0>>, ecx |-> <<0, 0>>, arg |-> NoArg]

\* iret: the trap frame is popped and the process runs
Iret(K) ==
    IF K.kmode = "panic" THEN K
    ELSE [K EXCEPT !.kmode = "user", !.pending = "noop", !.frame = UserFrame, !.iflag = TRUE]

\* File::read on file object f into the user buffer : Ok(count) is <<0, count>>,
\* Err(e) is <<1, e>> with BadFd = 0 and Unsupported = 1
File_read(K, f, buf, len) ==
    LET kind == K.files[f].kind
        C == K.console
        src == K.pipes[K.files[f].pipe]
        count == IF kind = "console" THEN Min(len, C.wpos - C.rpos) ELSE Min(len, Len(src))
        Drained == IF kind = "console"
                   THEN [K EXCEPT !.console = [C EXCEPT !.epos = C.wpos,
                                                 !.rpos = (C.rpos + count) % CONSOLE_BUFSIZE]]
                   ELSE [K EXCEPT !.pipes[K.files[f].pipe] = SubSeq(src, count + 1, Len(src))]
        Bytes == IF kind = "console" THEN SubSeq(C.buf, C.rpos + 1, C.rpos + count)
                 ELSE SubSeq(src, 1, count)
    IN IF kind = "null" THEN Ok(K, <<0, 0>>)
       ELSE IF kind \notin {"console", "piperead"} THEN Ok(K, <<1, 1>>)
       ELSE IF kind = "piperead" /\ src = <<>> /\ StrongCount(K.sched, K.files, f) = 1
       THEN Ok(K, <<0, 0>>)
       ELSE IF count = 0 THEN Ok(Drained, <<0, 0>>)
       ELSE Ok(KWrite(Drained, buf, count, Bytes), <<0, count>>)

\* a PipeWrite::write that keeps the buffered bytes when the read half is closed
File_write_kept(K, f, buf, len) ==
    LET kind == K.files[f].kind
        dst == K.pipes[K.files[f].pipe]
        count == Min(len, PIPE_BUF_LEN - Len(dst))
        Written(rd) ==
            IF len > 0 /\ ~rd.ok THEN Ok(KPanic(K, "Unhandled pagefault"), <<>>)
            ELSE IF kind = "pipewrite"
            THEN IF StrongCount(K.sched, K.files, f) = 1
                 THEN Ok(K, <<0, len>>)
                 ELSE Ok([K EXCEPT !.pipes[K.files[f].pipe] = dst \o CellBytes(rd.val, count)],
                         <<0, count>>)
            ELSE Ok(K, <<0, len>>)
    IN IF kind = "piperead" THEN Ok(K, <<1, 1>>) ELSE Written(KRead(K, buf, len))

\* a PipeWrite::write that puts the new bytes in front of the buffered ones
File_write_front(K, f, buf, len) ==
    LET kind == K.files[f].kind
        dst == K.pipes[K.files[f].pipe]
        count == Min(len, PIPE_BUF_LEN - Len(dst))
        Written(rd) ==
            IF len > 0 /\ ~rd.ok THEN Ok(KPanic(K, "Unhandled pagefault"), <<>>)
            ELSE IF kind = "pipewrite"
            THEN IF StrongCount(K.sched, K.files, f) = 1
                 THEN Ok([K EXCEPT !.pipes[K.files[f].pipe] = <<>>], <<0, len>>)
                 ELSE Ok([K EXCEPT !.pipes[K.files[f].pipe] = CellBytes(rd.val, count) \o dst],
                         <<0, count>>)
            ELSE Ok(K, <<0, len>>)
    IN IF kind = "piperead" THEN Ok(K, <<1, 1>>) ELSE Written(KRead(K, buf, len))

\* a File::write that takes the whole buffer whatever room the pipe has
File_write_uncapped(K, f, buf, len) ==
    LET kind == K.files[f].kind
        dst == K.pipes[K.files[f].pipe]
        Written(rd) ==
            IF len > 0 /\ ~rd.ok THEN Ok(KPanic(K, "Unhandled pagefault"), <<>>)
            ELSE IF kind = "pipewrite"
            THEN IF StrongCount(K.sched, K.files, f) = 1
                 THEN Ok([K EXCEPT !.pipes[K.files[f].pipe] = <<>>], <<0, len>>)
                 ELSE Ok([K EXCEPT !.pipes[K.files[f].pipe] = dst \o CellBytes(rd.val, len)],
                         <<0, len>>)
            ELSE Ok(K, <<0, len>>)
    IN IF kind = "piperead" THEN Ok(K, <<1, 1>>) ELSE Written(KRead(K, buf, len))

\* File::write on file object f from the user buffer
File_write(K, f, buf, len) ==
    LET kind == K.files[f].kind
        dst == K.pipes[K.files[f].pipe]
        count == Min(len, PIPE_BUF_LEN - Len(dst))
        Written(rd) ==
            IF len > 0 /\ ~rd.ok THEN Ok(KPanic(K, "Unhandled pagefault"), <<>>)
            ELSE IF kind = "pipewrite"
            THEN IF StrongCount(K.sched, K.files, f) = 1
                 THEN Ok([K EXCEPT !.pipes[K.files[f].pipe] = <<>>], <<0, len>>)
                 ELSE Ok([K EXCEPT !.pipes[K.files[f].pipe] = dst \o CellBytes(rd.val, count)],
                         <<0, count>>)
            ELSE Ok(K, <<0, len>>)
    IN IF kind = "piperead" THEN Ok(K, <<1, 1>>) ELSE Written(KRead(K, buf, len))

\* exit : the continuation kill_current_process returns is invoked next
sys_exit(K) == Ok(kill_current_process([K EXCEPT !.last.path = "exit"]), <<>>)

\* yield_cpu : the continuation schedule returns is invoked next
sys_yield_cpu(K) == Ok(schedule([K EXCEPT !.last.path = "yield"]), <<>>)

\* read
sys_read(K) ==
    LET a == K.frame.arg
        f == get_fd(K.sched, K.sched.current_process, a.fd)
    IN IF f = 0 THEN Ok(K, <<1, 0>>)
       ELSE IF can_read(K.sched, K.files, K.pipes, K.console, f)
       THEN File_read(K, f, a.buf, a.len)
       ELSE Err(K, FileBlock(a.fd, "Read"))

\* write
sys_write(K) ==
    LET a == K.frame.arg
        f == get_fd(K.sched, K.sched.current_process, a.fd)
    IN IF f = 0 THEN Ok(K, <<1, 0>>)
       ELSE IF can_write(K.sched, K.files, K.pipes, K.console, f)
       THEN File_write(K, f, a.buf, a.len)
       ELSE Err(K, FileBlock(a.fd, "Write"))

\* close
sys_close(K) ==
    IF K.frame.arg.fd = FdMax /\ K.overflow_checks
    THEN Ok(KPanic(K, "attempt to add with overflow"), <<>>)
    ELSE Ok([K EXCEPT !.sched = set_fd(K.sched, K.sched.current_process, K.frame.arg.fd, 0)],
            <<>>)

\* pipe
sys_pipe(K) ==
    LET pid == K.sched.current_process
        buf == Len(K.pipes) + 1
        read == Len(K.files) + 1
        write == Len(K.files) + 2
        r == new_fd(K.sched, pid, read)
        w == new_fd(r.s, pid, write)
    IN Ok([K EXCEPT !.pipes = Append(@, <<>>),
                    !.files = @ \o <<[kind |-> "piperead", pipe |-> buf],
                                     [kind |-> "pipewrite", pipe |-> buf]>>,
                    !.sched = w.s],
          <<r.fd, w.fd>>)

\* a fork that writes nothing to the result slot before it forks
sys_fork_unwritten(K) == scheduler_fork(K)

\* fork : the child's result slot is written before the address space is forked
sys_fork(K) == scheduler_fork(KWrite(K, K.frame.ecx, ResultSize[SysFork + 1], <<0>>))

\* wait
sys_wait(K) ==
    IF K.frame.arg.fd \in DOMAIN K.sched.processes
    THEN Err(K, ProcessBlock(K.frame.arg.fd))
    ELSE Ok(K, <<>>)

\* a dup2 that gives dst a File object of its own, of the kind of the one src names
sys_dup2_fresh(K) ==
    LET pid == K.sched.current_process
        f == get_fd(K.sched, pid, K.frame.arg.fd)
    IN IF f = 0 THEN Ok([K EXCEPT !.sched = set_fd(K.sched, pid, K.frame.arg.fd2, 0)], <<>>)
       ELSE Ok([K EXCEPT !.files = Append(@, K.files[f]),
                         !.sched = set_fd(K.sched, pid, K.frame.arg.fd2, Len(K.files) + 1)], <<>>)

\* dup2
sys_dup2(K) ==
    LET pid == K.sched.current_process IN
    IF K.frame.arg.fd2 = FdMax /\ K.overflow_checks
    THEN Ok(KPanic(K, "attempt to add with overflow"), <<>>)
    ELSE Ok([K EXCEPT !.sched = set_fd(K.sched, pid, K.frame.arg.fd2,
                                       get_fd(K.sched, pid, K.frame.arg.fd))], <<>>)

\* the ELF images find_elves found on the disk, by index
Elves == {0}

\* exec has loaded the image (M): the trap frame is replaced by the one
\* Elf32::load returns; the history records what the pages now hold
exec_loaded(K, M) ==
    IF M.panic # "" THEN Ok(KPanic([K EXCEPT !.mem = M], M.panic), <<>>)
    ELSE Ok([K EXCEPT !.mem = M, !.frame = UserFrame,
                      !.shadow[K.sched.current_process] =
                          [page \in DOMAIN @ |-> ReadVirt(M, page)]], <<>>)

\* an exec that reports no error for an index that names no image
sys_exec_silent(K) ==
    IF K.frame.arg.fd \notin Elves THEN Ok([K EXCEPT !.last.path = "exec_bad"], <<>>)
    ELSE exec_loaded([K EXCEPT !.last.path = "exec"], Elf32_load(K.mem))

\* exec : Err(BadProcess) is <<0>>
sys_exec(K) ==
    IF K.frame.arg.fd \notin Elves THEN Ok([K EXCEPT !.last.path = "exec_bad"], <<0>>)
    ELSE exec_loaded([K EXCEPT !.last.path = "exec"], Elf32_load(K.mem))

\* null_fd
sys_null_fd(K) ==
    LET r == new_fd(K.sched, K.sched.current_process, Len(K.files) + 1) IN
    Ok([K EXCEPT !.files = Append(@, [kind |-> "null", pipe |-> 0]), !.sched = r.s], <<r.fd>>)

\* the handler match_syscall! selects for each SyscallId
func(K, id) ==
    CASE id = SysExit -> sys_exit(K)
      [] id = SysYieldCpu -> sys_yield_cpu(K)
      [] id = SysRead -> sys_read(K)
      [] id = SysWrite -> sys_write(K)
      [] id = SysClose -> sys_close(K)
      [] id = SysPipe -> sys_pipe(K)
      [] id = SysFork -> sys_fork(K)
      [] id = SysExec -> sys_exec(K)
      [] id = SysWait -> sys_wait(K)
      [] id = SysDup2 -> sys_dup2(K)
      [] id = SysNullFd -> sys_null_fd(K)

\* every page of the range is present and user-accessible for the CPU
UserMapped(M, ptr, size) ==
    \A page \in PagesOf(ptr, size) : HwPte(M, page).present /\ HwPte(M, page).user

\* the history variable `last` as the dispatcher advances
Mark(K, unchecked, ebx_unchecked) ==
    [K EXCEPT !.last.unchecked = unchecked, !.last.ebx_unchecked = ebx_unchecked]

\* match_syscall_blocking, after the handler has returned h : result_ptr.write(r)
\* and the return to userspace, or scheduler.block(.., syscall) and schedule.
\* A handler that has called schedule itself leaves the continuation to invoke.
syscall_result(h, id) ==
    IF h.k.kmode # "kernel" THEN h.k
    ELSE IF h.block.kind # "none"
    THEN schedule([h.k EXCEPT !.sched = block(h.k.sched, h.k.sched.current_process,
                                              h.block, "syscall"),
                              !.last.path = "block"])
    ELSE IF h.val = <<>> THEN Iret(h.k)
    ELSE Iret(KWrite(h.k, h.k.frame.ecx, ResultSize[id + 1], h.val))

\* match_syscall_blocking : arg_ptr.read(), then the handler
match_syscall_blocking(K, id) ==
    LET fr == K.frame
        ebx_bad == ArgSize[id + 1] > 0 /\ ~UserMapped(K.mem, fr.ebx, ArgSize[id + 1])
        unchecked == \/ ebx_bad
                     \/ ~UserMapped(K.mem, fr.ecx, ResultSize[id + 1])
                     \/ id \in {SysRead, SysWrite} /\ ~UserMapped(K.mem, fr.arg.buf, fr.arg.len)
    IN IF ArgSize[id + 1] > 0 /\ ~KRead(K, fr.ebx, ArgSize[id + 1]).ok
       THEN KPanic(Mark(K, FALSE, ebx_bad), "Unhandled pagefault")
       ELSE syscall_result(func(Mark(K, unchecked, ebx_bad), id), id)

\* the panic match_syscall_args ends in for the outcome av of A::validate(arg_ptr)
\* and rv of validate_ptr(result_ptr, true); "" when both return true
validation_panic(av, rv) ==
    IF av = "fault" THEN "Unhandled pagefault"
    ELSE IF av = "panic" \/ (av = "true" /\ rv = "panic") THEN "attempt to add with overflow"
    ELSE IF av = "false" THEN "invalid syscall arg"
    ELSE IF rv = "false" THEN "invalid syscall result buffer"
    ELSE ""

\* match_syscall_args : A::validate(arg_ptr) and validate_ptr(result_ptr, true)
match_syscall_args(K, id) ==
    LET fr == K.frame
        msg == validation_panic(Arg_validate(K, id),
                                validate_ptr(K.mem, fr.ecx, ResultSize[id + 1],
                                             ResultAlign[id + 1], TRUE))
    IN IF msg # ""
       THEN KPanic(Mark(K, FALSE, id \in {SysRead, SysWrite}
                                    /\ ~UserMapped(K.mem, fr.ebx, ArgSize[id + 1])), msg)
       ELSE match_syscall_blocking(K, id)

\* syscall : the syscall named by al
syscall(K) ==
    IF K.frame.eax % 256 > SysNullFd THEN KPanic(K, "invalid syscall")
    ELSE match_syscall_args(K, K.frame.eax % 256)

\* the tail of page_fault for a fault in userspace nobody handled: the process
\* is killed and the value kill_current_process returns is dropped
page_fault_return(K) == IF K.kmode = "cont" THEN Iret(K) ELSE K
page_fault_kill(K) ==
    page_fault_return(kill_current_process([K EXCEPT !.last.path = "pagefault"]))

----------------------------------------------------------------------------
(* Initial state: main has loaded the first program and Scheduler::run has
   entered userspace *)

\* Scheduler::new followed by the three set_fd calls of main
InitScheduler(boot_cr3) ==
    LET new == [processes |-> (1 :> [env |-> [trap_frame |-> UserFrame, cr3 |-> boot_cr3],
                                     next |-> 0, prev |-> 0, fdtable |-> <<>>,
                                     block |-> NoBlock, next_fd |-> 0]),
                first |-> 1, next |-> 1, current_process |-> 1, next_pid |-> 2]
    IN set_fd(set_fd(set_fd(new, 1, 0, ConsoleFile), 1, 1, ConsoleFile), 1, 2, ConsoleFile)

\* the memory main leaves behind; the history starts with what it loaded
InitMem(M) ==
    /\ phys = M.phys
    /\ info = M.info
    /\ palloc = M.palloc
    /\ cr3 = M.cr3
    /\ kpt = M.kpt
    /\ kpanic = ""
    /\ shadow = (1 :> [page \in {ImageDataPage, ImageBssPage, StackPage} |-> ReadVirt(M, page)])

Init ==
    /\ InitMem(LoadedMem)
    /\ scheduler = InitScheduler(cr3)
    /\ files = <<[kind |-> "console", pipe |-> 0]>>
    /\ pipes = <<>>
    /\ console = [rpos |-> 0, epos |-> 0, wpos |-> 0, buf |-> <<>>]
    /\ frame = UserFrame
    /\ kmode = "user"
    /\ pending = "noop"
    /\ iflag = TRUE
    /\ timer_fired = FALSE
    /\ globals = GlobalsBooted
    /\ last = NoEntry

\* the state after a kernel path has run
Commit(K) ==
    /\ phys' = K.mem.phys
    /\ info' = K.mem.info
    /\ palloc' = K.mem.palloc
    /\ cr3' = K.mem.cr3
    /\ kpt' = K.mem.kpt
    /\ kpanic' = K.mem.panic
    /\ scheduler' = K.sched
    /\ files' = K.files
    /\ pipes' = K.pipes
    /\ console' = K.console
    /\ frame' = K.frame
    /\ kmode' = IF K.mem.panic # "" THEN "panic" ELSE K.kmode
    /\ pending' = K.pending
    /\ iflag' = K.iflag
    /\ timer_fired' = K.timer_fired
    /\ globals' = globals
    /\ shadow' = K.shadow
    /\ last' = K.last

----------------------------------------------------------------------------
(* What user programs do *)

\* where a well-formed program keeps its argument block, its result slot and its buffer
ArgPtr == <<StackPage, 16>>
ResultPtr == <<StackPage, 0>>
BufPtr == <<ImageDataPage, 0>>

\* the trap frame of a syscall: registers, and the argument block ebx points to
SysFrame(id, ebx, ecx, fd, fd2, buf, len) ==
    [eax |-> id, ebx |-> ebx, ecx |-> ecx,
     arg |-> [fd |-> fd, fd2 |-> fd2, buf |-> buf, len |-> len]]

\* the syscalls of well-formed programs
SyscallFrames ==
    {SysFrame(id, <<0, 0>>, <<0, 0>>, 0, 0, <<0, 0>>, 0) : id \in {SysExit, SysYieldCpu}}
    \cup {SysFrame(id, <<0, 0>>, ResultPtr, 0, 0, <<0, 0>>, 0) : id \in {SysPipe, SysFork}}
    \cup {SysFrame(SysRead, ArgPtr, ResultPtr, fd, 0, BufPtr, 1) : fd \in {0, 3}}
    \cup {SysFrame(SysWrite, ArgPtr, ResultPtr, 4, 0, BufPtr, 1)}
    \cup {SysFrame(SysWait, ArgPtr, <<0, 0>>, pid, 0, <<0, 0>>, 0) : pid \in 1 .. MaxPid}

\* the bounds of the model on what the running program asks for
Offered(fr, max_pid, max_len) ==
    LET S == scheduler
        p == S.processes[S.current_process]
        id == fr.eax
    IN /\ kmode = "user"
       /\ id = SysFork => S.next_pid <= max_pid
       /\ id = SysPipe => Len(pipes) < MaxPipes /\ p.next_fd + 2 <= MaxFd
       /\ id = SysNullFd => p.next_fd + 1 <= MaxFd
       /\ id = SysWrite /\ fr.arg.fd \in DOMAIN p.fdtable
                        /\ files[p.fdtable[fr.arg.fd]].kind = "pipewrite"
            => Len(pipes[files[p.fdtable[fr.arg.fd]].pipe]) < max_len

\* bytes the keyboard or the serial line delivers
InputChars == {65}
\* pages a program stores to, and the values it stores
StorePages == {HolePage}
UserVals == {8}

----------------------------------------------------------------------------
(* Actions *)

\* the kernel is entered: the entry stub has pushed the trap frame
Enter(fr, path, if) ==
    [KState EXCEPT !.frame = fr, !.kmode = "kernel", !.iflag = if,
                   !.last = [NoEntry EXCEPT !.path = path]]

\* the outcome st of a user store: performed, or page_fault panics, or
\* page_fault kills the process
StoreDone(st, page, v) ==
    IF st.ok
    THEN Commit([KState EXCEPT !.mem = st.m, !.last = NoEntry,
                               !.shadow[scheduler.current_process][page] = DataFrame(<<v>>)])
    ELSE IF st.m.panic # "" THEN Commit(KPanic(Enter(frame, "none", FALSE), st.m.panic))
    ELSE Commit(page_fault_kill([Enter(frame, "none", FALSE) EXCEPT !.mem = st.m]))

\* int 0x20 from the running process (trap gate: interrupts stay enabled)
UserSyscall(fr) ==
    /\ kmode = "user"
    /\ Commit(syscall(Enter(fr, "none", TRUE)))

\* a store instruction of the running process (page faults the handler resolves
\* are part of the instruction)
UserStore(page, v) ==
    /\ kmode = "user"
    /\ StoreDone(Store(MemState, page, DataFrame(<<v>>), TRUE), page, v)

\* a handler that preempts whatever it has interrupted
handle_interrupt_preempting(K, userspace) == schedule([K EXCEPT !.timer_fired = FALSE])

\* Scheduler::handle_interrupt for a trap frame K.frame of userspace or of the kernel
handle_interrupt(K, userspace) ==
    IF userspace THEN schedule([K EXCEPT !.timer_fired = FALSE])
    ELSE [K EXCEPT !.timer_fired = TRUE]

\* the PIT interrupt while a process runs
TimerInterrupt ==
    /\ kmode = "user"
    /\ Commit(handle_interrupt(Enter(frame, "timer", FALSE), TRUE))

\* a privileged instruction of the running process: general_protection_fault
GeneralProtectionFault ==
    /\ kmode = "user"
    /\ Commit(kill_current_process(Enter(frame, "gpf", FALSE)))

\* continuation(frame), then the return to userspace
RunContinuation ==
    /\ kmode = "cont"
    /\ Commit(IF pending = "syscall"
              THEN syscall([KState EXCEPT !.last.path = "none", !.pending = "noop",
                                          !.kmode = "kernel"])
              ELSE Iret([KState EXCEPT !.last.path = "none"]))

\* load_next_process finds a process that can run after looping over blocked ones
Spin ==
    /\ kmode = "spin"
    /\ load_next_process(KState).kmode # "spin"
    /\ Commit(IF last.path = "pagefault" THEN page_fault_return(load_next_process(KState))
              ELSE load_next_process(KState))

\* ConsoleBuffer::recv_input from the keyboard or serial interrupt
RecvInput(c) ==
    /\ kmode = "user" \/ (kmode \in {"cont", "spin"} /\ iflag)
    /\ console.wpos < MaxInput
    /\ console' =
         IF console.wpos = (IF console.rpos = 0 THEN CONSOLE_BUFSIZE - 1 ELSE console.rpos - 1)
         THEN console
         ELSE [console EXCEPT !.buf = Append(@, c),
                              !.wpos = (console.wpos + 1) % CONSOLE_BUFSIZE]
    /\ UNCHANGED <<phys, info, palloc, cr3, kpt, kpanic, scheduler, files, pipes, frame,
                   kmode, pending, iflag, timer_fired, globals, shadow, last>>

Next ==
    \/ \E fr \in SyscallFrames : Offered(fr, MaxPid, MaxPipeLen) /\ UserSyscall(fr)
    \/ \E page \in StorePages, v \in UserVals : UserStore(page, v)
    \/ TimerInterrupt
    \/ GeneralProtectionFault
    \/ RunContinuation
    \/ Spin
    \/ \E c \in InputChars : RecvInput(c)

Spec == Init /\ [][Next]_vars

----------------------------------------------------------------------------
(* Scheduler properties (specification Spec) *)

\* C7: in every process, next_fd is strictly greater than every fd present in
\* the process's fd table
C7_NextFdAboveTable ==
    \A pid \in DOMAIN scheduler.processes :
        \A fd \in DOMAIN scheduler.processes[pid].fdtable :
            fd < scheduler.processes[pid].next_fd

\* C8: a step that makes a process current which carried a Block leaves that
\* Block's wakeup condition true (the file reports the requested readiness, the
\* awaited pid is out of the process table), and every process a step makes
\* current has its Block cleared
C8_BlockedNotSelected ==
    [][/\ \A p \in DOMAIN scheduler.processes :
            (/\ scheduler.processes[p].block.kind # "none"
             /\ p \in DOMAIN scheduler'.processes
             /\ scheduler'.current_process = p
             /\ kmode' \in {"cont", "user"})
            => IF scheduler.processes[p].block.kind = "process"
               THEN scheduler.processes[p].block.pid \notin DOMAIN scheduler'.processes
               ELSE can_access(scheduler', files', pipes', console',
                               scheduler'.processes[p].fdtable[scheduler.processes[p].block.fd],
                               scheduler.processes[p].block.access)
       /\ kmode' \in {"cont", "user"}
            => scheduler'.processes[scheduler'.current_process].block = NoBlock]_vars

\* a process that was blocked has been selected: its syscall is about to be re-dispatched
C8_Witness == kmode = "cont" /\ pending = "syscall"

\* C9: a step that makes a blocked process current hands control to the syscall
\* entry with the trap frame that was saved when the process blocked
C9_BlockedSyscallRedispatched ==
    [][\A p \in DOMAIN scheduler.processes :
           (/\ scheduler.processes[p].block.kind # "none"
            /\ p \in DOMAIN scheduler'.processes
            /\ scheduler'.current_process = p
            /\ kmode' \in {"cont", "user"})
           => /\ kmode' = "cont"
              /\ pending' = "syscall"
              /\ frame' = scheduler.processes[p].env.trap_frame]_vars

\* C10: no process runs in userspace while a continuation returned by schedule or
\* kill_current_process has not been invoked
C10_ContinuationInvoked == kmode = "user" => last.path = "none"

----------------------------------------------------------------------------
(* Syscalls with arbitrary pointers (specification SpecPtr) *)

\* values a program may load into ebx, ecx and the buffer field: its own
\* memory, the null page, kernel memory, the PageInfo array, a misaligned slot,
\* a buffer that runs over the end of the stack into the unmapped page above it
ArgPtrs == {ArgPtr, <<0, 0>>, <<KernelPage, 0>>}
ResultPtrs == {ResultPtr, <<0, 0>>, <<KernelPage, 0>>, <<PageInfoBasePage, 0>>, <<StackPage, 2>>}
Buffers == {<<BufPtr, 1>>, <<<<KernelPage, 0>>, 1>>, <<<<PageInfoBasePage, 0>>, 1>>,
            <<<<StackPage, PAGE_SIZE - 1>>, 2>>}

PtrFrames ==
    {SysFrame(SysPipe, <<0, 0>>, ecx, 0, 0, <<0, 0>>, 0) : ecx \in ResultPtrs}
    \cup {SysFrame(SysClose, ebx, <<0, 0>>, 2, 0, <<0, 0>>, 0) : ebx \in ArgPtrs}
    \cup {SysFrame(id, ebx, ecx, IF id = SysRead THEN 3 ELSE 4, 0, b[1], b[2]) :
            id \in {SysRead, SysWrite}, ebx \in ArgPtrs, ecx \in ResultPtrs, b \in Buffers}

NextPtr == \E fr \in PtrFrames : Offered(fr, MaxPid, MaxPipeLen) /\ UserSyscall(fr)

SpecPtr == Init /\ [][NextPtr]_vars

\* C1: no syscall handler has run with an argument pointer, a result pointer or
\* a buffer that lies outside the mapped, user-accessible pages
C1_HandlerPointersChecked == ~last.unchecked

\* C2: the dispatcher has read through ebx only where ebx lies in mapped,
\* user-accessible pages
C2_ArgPointerValidated == ~last.ebx_unchecked

----------------------------------------------------------------------------
(* MemoryMapper::validate_range over mapper states (specification SpecVR) *)

VRAddrs == {<<ImageDataPage, 0>>, <<StackPage, 0>>, <<StackPage, PAGE_SIZE - 1>>,
            <<HolePage, 0>>, <<KernelPage, 0>>, <<MetaPage, 0>>, <<MetaPage, PAGE_SIZE - 1>>}
VRSizes == {<<0, 0>>, <<0, 1>>, <<0, 2>>, <<1, 0>>, <<1, 1>>, <<NumPages - 1, PAGE_SIZE - 1>>}

\* Mmu::palloc and Mmu::map : a fresh frame is mapped at an unmapped user page
VRMap(page, flags) ==
    /\ kmode = "user"
    /\ ~get_mapping(MemState, page).present
    /\ Alloc(MemState).r # 0
    /\ Commit([KState EXCEPT !.mem = map(Alloc(MemState).m, Alloc(MemState).r, page, flags)])

\* validate_range is called; `last` keeps the call and what it returned
VRQuery(vaddr, size, flags, overflow_checks) ==
    /\ kmode = "user"
    /\ Commit([KState EXCEPT !.last =
                 [vaddr |-> vaddr, size |-> size, flags |-> flags,
                  result |-> mapper_validate_range(MemState, vaddr, size, flags,
                                                   overflow_checks)]])

NextVR ==
    \/ \E w \in BOOLEAN, u \in BOOLEAN : VRMap(HolePage, MappingFlags(w, u))
    \/ \E vaddr \in VRAddrs, size \in VRSizes, w \in BOOLEAN, u \in BOOLEAN, oc \in BOOLEAN :
           VRQuery(vaddr, size, MappingFlags(w, u), oc)

SpecVR == Init /\ [][NextVR]_vars

\* the call `last` keeps returned true
VRAccepted == "result" \in DOMAIN last /\ last.result = "true"

\* C3: validate_range returns true only if every page that intersects
\* [vaddr, vaddr + len) is mapped
C3_EveryPageMapped ==
    VRAccepted =>
        \A page \in PagesOf(last.vaddr, last.size[1] * PAGE_SIZE + last.size[2]) :
            page < NumPages /\ get_mapping(MemState, page).present

----------------------------------------------------------------------------
(* fork and copy-on-write (specification SpecMem) *)

\* pids fork is offered up to, pages programs store to and the values they store
MaxMemPid == 3
MemStorePages == {ImageDataPage, StackPage}
MemVals == {8}

MemFrames ==
    {SysFrame(SysExit, <<0, 0>>, <<0, 0>>, 0, 0, <<0, 0>>, 0),
     SysFrame(SysFork, <<0, 0>>, ResultPtr, 0, 0, <<0, 0>>, 0)}

NextMem ==
    \/ \E fr \in MemFrames : Offered(fr, MaxMemPid, MaxPipeLen) /\ UserSyscall(fr)
    \/ \E page \in MemStorePages, v \in MemVals : UserStore(page, v)
    \/ TimerInterrupt
    \/ RunContinuation

SpecMem == Init /\ [][NextMem]_vars

\* what process pid of scheduler S reads at a page of memory M: the walk starts
\* at the cr3 of its Env
ReadIn(M, S, pid, page) == ReadVirt([M EXCEPT !.cr3 = S.processes[pid].env.cr3], page)
ReadAs(pid, page) == ReadIn(MemState, scheduler, pid, page)

C6_ForkResults ==
    [][\A fr \in MemFrames :
           (fr.eax = SysFork /\ UserSyscall(fr) /\ kmode' = "user")
           => /\ scheduler.next_pid # 0
              /\ scheduler.next_pid \in DOMAIN scheduler'.processes
              /\ scheduler'.processes[scheduler.next_pid].env.trap_frame = fr
              /\ ReadIn(MemState', scheduler', scheduler.next_pid, StackPage).val[1] = 0
              /\ ReadIn(MemState', scheduler', scheduler.current_process, StackPage).val[1]
                     = scheduler.next_pid]_vars

\* a fork has returned: the child's slot reads 0, the parent's the child's pid
C6_Witness ==
    /\ kmode = "user"
    /\ \E c \in DOMAIN scheduler.processes :
           /\ c # scheduler.current_process
           /\ ReadAs(c, StackPage).val[1] = 0
           /\ ReadAs(scheduler.current_process, StackPage).val[1] = c

----------------------------------------------------------------------------
(* The process ring (specification SpecMem) *)

\* the pids met by following next from p, at most n of them
RECURSIVE RingWalk(_, _, _)
RingWalk(S, p, n) ==
    IF p = 0 \/ n = 0 \/ p \notin DOMAIN S.processes THEN <<>>
    ELSE <<p>> \o RingWalk(S, S.processes[p].next, n - 1)

\* the walk from first, cut one step after the number of processes
Ring == RingWalk(scheduler, scheduler.first, Cardinality(DOMAIN scheduler.processes) + 1)

\* C11: first is None or a pid of the process map; following next from first
\* visits every pid of the map exactly once and then reaches None, and the prev
\* links mirror the next links
C11_RingConsistent ==
    /\ scheduler.first = 0 \/ scheduler.first \in DOMAIN scheduler.processes
    /\ Len(Ring) = Cardinality(DOMAIN scheduler.processes)
    /\ {Ring[i] : i \in 1 .. Len(Ring)} = DOMAIN scheduler.processes
    /\ Ring # <<>> => scheduler.processes[Ring[Len(Ring)]].next = 0
    /\ \A i \in 1 .. Len(Ring) :
           scheduler.processes[Ring[i]].prev = IF i = 1 THEN 0 ELSE Ring[i - 1]

\* three processes have been created and one of them, neither the first nor
\* the last of the ring, has been removed
C11_Witness ==
    /\ scheduler.next_pid = 4
    /\ DOMAIN scheduler.processes = {1, 3}

----------------------------------------------------------------------------
(* The pipe of one process, as in pipetest (specification SpecPipe) *)

\* bytes a pipe holds before further writes are no longer offered, the lengths
\* of the buffers passed to read and write, the bytes programs put in them
MaxPipeBytes == 3
PipeLens == {1, 2}
PipeVals == {8, 9}
\* the descriptors pipe() returns to the first process
PipeReadFd == 3
PipeWriteFd == 4

PipeFrames ==
    {SysFrame(SysPipe, <<0, 0>>, ResultPtr, 0, 0, <<0, 0>>, 0)}
    \cup {SysFrame(SysClose, ArgPtr, <<0, 0>>, fd, 0, <<0, 0>>, 0) : fd \in {PipeReadFd, PipeWriteFd}}
    \cup {SysFrame(SysRead, ArgPtr, ResultPtr, PipeReadFd, 0, BufPtr, n) : n \in PipeLens}
    \cup {SysFrame(SysWrite, ArgPtr, ResultPtr, PipeWriteFd, 0, BufPtr, n) : n \in PipeLens}

NextPipe ==
    \/ \E fr \in PipeFrames : Offered(fr, MaxPid, MaxPipeBytes) /\ UserSyscall(fr)
    \/ \E v \in PipeVals : UserStore(BufPtr[1], v)
    \/ TimerInterrupt
    \/ RunContinuation

SpecPipe == Init /\ [][NextPipe]_vars

\* some descriptor of some process refers to a half of this kind of pipe i
HalfOpen(S, F, i, kind) ==
    \E pid \in DOMAIN S.processes : \E fd \in DOMAIN S.processes[pid].fdtable :
        F[S.processes[pid].fdtable[fd]] = [kind |-> kind, pipe |-> i]

\* the leading n bytes a process finds in its buffer, and its result slot
BufBytes(M, S, pid, n) == CellBytes(ReadIn(M, S, pid, BufPtr[1]), n)
ResultSlot(M, S, pid) == SubSeq(ReadIn(M, S, pid, ResultPtr[1]).val, 1, 2)

\* C12: every step leaves a pipe with both halves open as it was, or appends to
\* its tail the first n bytes of the caller's buffer and returns n, or removes
\* n >= 1 bytes from its head, hands exactly these bytes to the caller's buffer
\* and returns n: what reads return is, in order, what writes accepted
C12_PipeFifo ==
    [][\A i \in DOMAIN pipes :
          (HalfOpen(scheduler, files, i, "piperead")
           /\ HalfOpen(scheduler, files, i, "pipewrite") /\ kmode' # "panic")
          => \/ pipes'[i] = pipes[i]
             \/ \E n \in 1 .. Len(pipes[i]) :
                   /\ pipes'[i] = SubSeq(pipes[i], n + 1, Len(pipes[i]))
                   /\ BufBytes(MemState', scheduler', scheduler.current_process, n)
                        = SubSeq(pipes[i], 1, n)
                   /\ ResultSlot(MemState', scheduler', scheduler.current_process) = <<0, n>>
             \/ \E n \in PipeLens :
                   /\ pipes'[i] = pipes[i] \o BufBytes(MemState, scheduler,
                                                       scheduler.current_process, n)
                   /\ ResultSlot(MemState', scheduler', scheduler.current_process) = <<0, n>>]_vars

\* the bytes 8 and 9 were written in this order and a read of two bytes got them back
C12_Witness ==
    /\ kmode = "user"
    /\ pipes = << <<>> >>
    /\ BufBytes(MemState, scheduler, scheduler.current_process, 2) = <<8, 9>>
    /\ ResultSlot(MemState, scheduler, scheduler.current_process) = <<0, 2>>

\* the pipe behind descriptor fd of the running process, 0 if fd is not open or
\* is not a half of this kind
PipeOf(fd, kind) ==
    LET f == get_fd(scheduler, scheduler.current_process, fd)
    IN IF f # 0 /\ files[f].kind = kind THEN files[f].pipe ELSE 0

\* C13: a read syscall on the read half of a pipe, with a destination of at
\* least one byte, returns 0 exactly when the buffer is empty and the write half
\* is closed; with bytes in the buffer it returns at least one, and with an
\* empty buffer and the write half open it does not return: the caller blocks
C13_ReadEof ==
    [][\A fr \in PipeFrames :
          (fr.eax = SysRead /\ PipeOf(fr.arg.fd, "piperead") # 0 /\ UserSyscall(fr))
          => IF pipes[PipeOf(fr.arg.fd, "piperead")] # <<>>
             THEN /\ kmode' = "user"
                  /\ ResultSlot(MemState', scheduler', scheduler.current_process)[1] = 0
                  /\ ResultSlot(MemState', scheduler', scheduler.current_process)[2] >= 1
             ELSE IF HalfOpen(scheduler, files, PipeOf(fr.arg.fd, "piperead"), "pipewrite")
             THEN /\ kmode' # "user"
                  /\ scheduler'.processes[scheduler.current_process].block
                       = block(scheduler, scheduler.current_process,
                               FileBlock(fr.arg.fd, "Read"), "syscall")
                           .processes[scheduler.current_process].block
             ELSE /\ kmode' = "user"
                  /\ ResultSlot(MemState', scheduler', scheduler.current_process) = <<0, 0>>]_vars

\* the write half was closed with a byte in the pipe, the byte was read and the
\* next read returned 0
C13_Witness ==
    /\ kmode = "user"
    /\ PipeOf(PipeReadFd, "piperead") # 0
    /\ ~HalfOpen(scheduler, files, PipeOf(PipeReadFd, "piperead"), "pipewrite")
    /\ pipes[PipeOf(PipeReadFd, "piperead")] = <<>>
    /\ BufBytes(MemState, scheduler, scheduler.current_process, 1) = <<9>>
    /\ ResultSlot(MemState, scheduler, scheduler.current_process) = <<0, 0>>

\* pipe i is at end-of-file: nothing buffered and no descriptor for its write half
PipeDead(S, F, P, i) == P[i] = <<>> /\ ~HalfOpen(S, F, i, "pipewrite")

\* C14: a pipe that is empty with its write half closed stays so whatever any
\* process does next, and every read on it returns 0 without blocking
C14_EofPermanent ==
    [][\A i \in DOMAIN pipes :
          PipeDead(scheduler, files, pipes, i)
          => /\ PipeDead(scheduler', files', pipes', i)
             /\ \A fr \in PipeFrames :
                   (fr.eax = SysRead /\ PipeOf(fr.arg.fd, "piperead") = i /\ UserSyscall(fr))
                   => /\ kmode' = "user"
                      /\ ResultSlot(MemState', scheduler', scheduler.current_process)
                           = <<0, 0>>]_vars

\* the pipe is at end-of-file, the program has since stored to its buffer and
\* a read has returned 0 and left the buffer alone
C14_Witness ==
    /\ kmode = "user"
    /\ PipeOf(PipeReadFd, "piperead") # 0
    /\ PipeDead(scheduler, files, pipes, PipeOf(PipeReadFd, "piperead"))
    /\ BufBytes(MemState, scheduler, scheduler.current_process, 1) = <<8>>
    /\ ResultSlot(MemState, scheduler, scheduler.current_process) = <<0, 0>>

----------------------------------------------------------------------------
(* Scheduling rounds keep occurring (specification LiveSpec) *)

\* The PIT keeps interrupting a process that runs, a kernel path that has a
\* continuation to invoke invokes it, and the loop of load_next_process goes
\* on. TimerInterrupt is enabled exactly in user mode and RunContinuation
\* exactly when a continuation is pending, and each of them leaves that mode,
\* so WF_vars(TimerInterrupt) is []<>(kmode # "user") and
\* WF_vars(RunContinuation) is []<>(kmode # "cont"): they are stated in that
\* form.
LiveSpec ==
    /\ Spec
    /\ []<>(kmode # "user")
    /\ []<>(kmode # "cont")
    /\ WF_vars(Spin)

\* process p of scheduler S carries the Block of wait(q)
WaitingIn(S, p, q) ==
    /\ p \in DOMAIN S.processes
    /\ S.processes[p].block.kind = "process"
    /\ S.processes[p].block.pid = q
Waiting(p, q) == WaitingIn(scheduler, p, q)

----------------------------------------------------------------------------
(* Blocking on a pipe (specification LiveBlock): the first process has
   called pipe(), has either left the pipe empty or filled it, and has
   forked; both processes read, write and close the two descriptors *)

\* the kernel main hands to the first process, as one value
InitK ==
    [mem |-> LoadedMem, sched |-> InitScheduler(LoadedMem.cr3),
     files |-> <<[kind |-> "console", pipe |-> 0]>>, pipes |-> <<>>,
     console |-> [rpos |-> 0, epos |-> 0, wpos |-> 0, buf |-> <<>>],
     frame |-> UserFrame, kmode |-> "user", pending |-> "noop", iflag |-> TRUE,
     timer_fired |-> FALSE,
     shadow |-> (1 :> [page \in {ImageDataPage, ImageBssPage, StackPage}
                       |-> ReadVirt(LoadedMem, page)]),
     last |-> NoEntry, overflow_checks |-> TRUE]

\* the first process has called pipe()
PipeK ==
    syscall([InitK EXCEPT !.frame = SysFrame(SysPipe, <<0, 0>>, ResultPtr, 0, 0, <<0, 0>>, 0),
                          !.kmode = "kernel"])

\* a pipe the first process has written PIPE_BUF_LEN bytes to
FullPipe == [i \in 1 .. PIPE_BUF_LEN |-> 7]

\* the kernel K is the state
Start(K) ==
    /\ phys = K.mem.phys
    /\ info = K.mem.info
    /\ palloc = K.mem.palloc
    /\ cr3 = K.mem.cr3
    /\ kpt = K.mem.kpt
    /\ kpanic = K.mem.panic
    /\ scheduler = K.sched
    /\ files = K.files
    /\ pipes = K.pipes
    /\ console = K.console
    /\ frame = K.frame
    /\ kmode = K.kmode
    /\ pending = K.pending
    /\ iflag = K.iflag
    /\ timer_fired = K.timer_fired
    /\ globals = GlobalsBooted
    /\ shadow = K.shadow
    /\ last = NoEntry

\* the first process has then forked
ForkK(K) ==
    syscall([K EXCEPT !.frame = SysFrame(SysFork, <<0, 0>>, ResultPtr, 0, 0, <<0, 0>>, 0),
                      !.kmode = "kernel"])

InitBlock == \E content \in {<<>>, FullPipe} : Start(ForkK([PipeK EXCEPT !.pipes = <<content>>]))

BlockFrames ==
    {SysFrame(SysClose, ArgPtr, <<0, 0>>, fd, 0, <<0, 0>>, 0) : fd \in {PipeReadFd, PipeWriteFd}}
    \cup {SysFrame(SysRead, ArgPtr, ResultPtr, PipeReadFd, 0, BufPtr, 1),
          SysFrame(SysWrite, ArgPtr, ResultPtr, PipeWriteFd, 0, BufPtr, 1)}

\* the programs write to a pipe that is nearly empty or nearly full, and read
\* from a pipe that is nearly empty or full
BlockOffered(fr) ==
    /\ kmode = "user"
    /\ fr.eax = SysRead => Len(pipes[1]) <= MaxPipeLen \/ Len(pipes[1]) = PIPE_BUF_LEN
    /\ fr.eax = SysWrite => Len(pipes[1]) < MaxPipeLen \/ Len(pipes[1]) >= PIPE_BUF_LEN - 1

NextBlock ==
    \/ \E fr \in BlockFrames : BlockOffered(fr) /\ UserSyscall(fr)
    \/ TimerInterrupt
    \/ RunContinuation

\* scheduling rounds keep occurring, as in LiveSpec (no interrupt other than
\* the timer's arrives here, so a load_next_process that finds every process
\* blocked loops for ever and Spin is never enabled)
LiveBlock ==
    /\ InitBlock
    /\ [][NextBlock]_vars
    /\ []<>(kmode # "user")
    /\ []<>(kmode # "cont")
    /\ WF_vars(Spin)

\* process p of scheduler S carries the Block of a read (ty = "Read") or of a
\* write (ty = "Write") on descriptor fd
FileBlockedIn(S, p, fd, ty) ==
    /\ p \in DOMAIN S.processes
    /\ S.processes[p].block.kind = "file"
    /\ S.processes[p].block.fd = fd
    /\ S.processes[p].block.access = ty

\* what a reader of the pipe waits for, and what a writer waits for
ReadReady(S, F, P) == P[1] # <<>> \/ ~HalfOpen(S, F, 1, "pipewrite")
WriteReady(S, F, P) == Len(P[1]) # PIPE_BUF_LEN \/ ~HalfOpen(S, F, 1, "piperead")

\* the caller of a read on the empty pipe whose write half is open, or of a
\* write on the full pipe whose read half is open, is blocked, and a process
\* blocked so is made current only when what it waits for holds
BlocksUntilReady ==
    [][/\ \A fr \in BlockFrames :
           (/\ fr.eax = SysRead
            /\ get_fd(scheduler, scheduler.current_process, fr.arg.fd) # 0
            /\ ~ReadReady(scheduler, files, pipes)
            /\ UserSyscall(fr))
           => /\ FileBlockedIn(scheduler', scheduler.current_process, fr.arg.fd, "Read")
              /\ scheduler'.current_process # scheduler.current_process \/ kmode' = "spin"
       /\ \A fr \in BlockFrames :
           (/\ fr.eax = SysWrite
            /\ get_fd(scheduler, scheduler.current_process, fr.arg.fd) # 0
            /\ ~WriteReady(scheduler, files, pipes)
            /\ UserSyscall(fr))
           => /\ FileBlockedIn(scheduler', scheduler.current_process, fr.arg.fd, "Write")
              /\ scheduler'.current_process # scheduler.current_process \/ kmode' = "spin"
       /\ \A p \in 1 .. MaxPid :
           (/\ FileBlockedIn(scheduler, p, PipeReadFd, "Read")
            /\ ~FileBlockedIn(scheduler', p, PipeReadFd, "Read"))
           => ReadReady(scheduler', files', pipes')
       /\ \A p \in 1 .. MaxPid :
           (/\ FileBlockedIn(scheduler, p, PipeWriteFd, "Write")
            /\ ~FileBlockedIn(scheduler', p, PipeWriteFd, "Write"))
           => WriteReady(scheduler', files', pipes')]_vars

ReadBlocked(p) == FileBlockedIn(scheduler, p, PipeReadFd, "Read")
WriteBlocked(p) == FileBlockedIn(scheduler, p, PipeWriteFd, "Write")

\* scheduling rounds keep occurring: again and again load_next_process returns
\* with a process selected
RoundsKeepOccurring == []<>(kmode = "cont")

\* C16 as stated: a read on an empty pipe whose write half is open blocks the
\* caller, which is not made current until the pipe is non-empty or the write
\* half is closed, and once that has happened it is eventually made current
\* as long as scheduling rounds keep occurring; the same for a write on a full
\* pipe whose read half is open
C16_BlockedUntilReadyOnce ==
    /\ BlocksUntilReady
    /\ RoundsKeepOccurring
         => \A p \in 1 .. MaxPid :
               (ReadBlocked(p) /\ ReadReady(scheduler, files, pipes)) ~> ~ReadBlocked(p)
    /\ RoundsKeepOccurring
         => \A p \in 1 .. MaxPid :
               (WriteBlocked(p) /\ WriteReady(scheduler, files, pipes)) ~> ~WriteBlocked(p)

\* C16, amended: the blocked process is eventually made current when what it
\* waits for keeps holding until a scheduling round examines it; bytes that
\* another reader takes out again before then leave it blocked
C16_BlockedUntilReady ==
    /\ BlocksUntilReady
    /\ RoundsKeepOccurring
         => \A p \in 1 .. MaxPid :
               (ReadBlocked(p) /\ ReadReady(scheduler, files, pipes))
               ~> (~ReadBlocked(p) \/ ~ReadReady(scheduler, files, pipes))
    /\ RoundsKeepOccurring
         => \A p \in 1 .. MaxPid :
               (WriteBlocked(p) /\ WriteReady(scheduler, files, pipes))
               ~> (~WriteBlocked(p) \/ ~WriteReady(scheduler, files, pipes))

\* a process that blocked in a read on the empty pipe has been made current
\* after a byte was written, and its syscall is about to be dispatched again
C16_Witness ==
    /\ kmode = "cont"
    /\ pending = "syscall"
    /\ frame.eax = SysRead
    /\ Len(pipes[1]) = 1
    /\ HalfOpen(scheduler, files, 1, "pipewrite")

----------------------------------------------------------------------------
(* dup2 (specification SpecDup): one process makes a pipe, redirects its
   standard input and output as tinysh does, and reads, writes and closes
   the descriptors *)

\* the descriptors dup2 overwrites, and all the descriptors the program uses
DupTargets == {0, 1}
DupFds == {0, 1, PipeReadFd, PipeWriteFd}

DupFrames ==
    {SysFrame(SysPipe, <<0, 0>>, ResultPtr, 0, 0, <<0, 0>>, 0)}
    \cup {SysFrame(SysDup2, ArgPtr, <<0, 0>>, src, dst, <<0, 0>>, 0) :
            src \in {0, PipeReadFd, PipeWriteFd}, dst \in DupTargets}
    \cup {SysFrame(SysClose, ArgPtr, <<0, 0>>, fd, 0, <<0, 0>>, 0) : fd \in DupFds}
    \cup {SysFrame(id, ArgPtr, ResultPtr, fd, 0, BufPtr, 1) : id \in {SysRead, SysWrite}, fd \in DupFds}

NextDup ==
    \/ \E fr \in DupFrames : Offered(fr, MaxPid, MaxPipeLen) /\ UserSyscall(fr)
    \/ TimerInterrupt
    \/ RunContinuation
    \/ Spin
    \/ \E c \in InputChars : RecvInput(c)

SpecDup == Init /\ [][NextDup]_vars

\* the kernel K without the descriptor numbers it remembers: the one in the
\* trap frame and the one in a Block
EraseFd(K) ==
    [K EXCEPT !.sched.processes =
                 [p \in DOMAIN @ |-> [@[p] EXCEPT !.block.fd = 0,
                                                  !.env.trap_frame.arg.fd = 0]],
              !.frame.arg.fd = 0,
              !.kmode = IF K.mem.panic # "" THEN "panic" ELSE K.kmode]

\* the same call through descriptor g leaves the kernel K
SameThrough(K, g, fr) == EraseFd(K) = EraseFd(syscall(Enter([fr EXCEPT !.arg.fd = g], "none", TRUE)))

\* C18: after dup2(src, dst) with src open, dst and src name the same File
\* object; a read or a write through one descriptor returns and does what the
\* same call through any descriptor of the same File object returns and does;
\* close leaves every other descriptor, and the File object another
\* descriptor still names, as they were
C18_Dup2SameFile ==
    [][\A fr \in DupFrames :
          LET cur == scheduler.current_process
              f == get_fd(scheduler, cur, fr.arg.fd)
          IN /\ (fr.eax = SysDup2 /\ f # 0 /\ UserSyscall(fr))
                => /\ get_fd(scheduler', cur, fr.arg.fd2) = f
                   /\ get_fd(scheduler', cur, fr.arg.fd) = f
                   /\ files' = files
             /\ (fr.eax \in {SysRead, SysWrite} /\ f # 0 /\ UserSyscall(fr))
                => \A g \in DupFds : get_fd(scheduler, cur, g) = f => SameThrough(KState', g, fr)
             /\ (fr.eax = SysClose /\ UserSyscall(fr))
                => /\ \A g \in DupFds \ {fr.arg.fd} :
                         get_fd(scheduler', cur, g) = get_fd(scheduler, cur, g)
                   /\ files' = files
                   /\ pipes' = pipes]_vars

\* descriptor 1 was made to name the write half of the pipe, descriptor
\* PipeWriteFd was closed, and a byte written through descriptor 1 is in the pipe
C18_Witness ==
    /\ kmode = "user"
    /\ PipeOf(1, "pipewrite") # 0
    /\ get_fd(scheduler, scheduler.current_process, PipeWriteFd) = 0
    /\ pipes[PipeOf(1, "pipewrite")] # <<>>
    /\ ResultSlot(MemState, scheduler, scheduler.current_process) = <<0, 1>>

----------------------------------------------------------------------------
(* close (specification SpecClose): one process makes descriptors with
   pipe() and null_fd() and closes descriptors, open or not, in a kernel
   built with or without overflow checks *)

\* descriptors the program closes: an open one, one pipe() returns, one above
\* every descriptor it was given, and the largest u32
CloseFds == {1, PipeReadFd, 7, FdMax}

CloseFrames ==
    {SysFrame(id, <<0, 0>>, ResultPtr, 0, 0, <<0, 0>>, 0) : id \in {SysPipe, SysNullFd}}
    \cup {SysFrame(SysClose, ArgPtr, <<0, 0>>, fd, 0, <<0, 0>>, 0) : fd \in CloseFds}

\* the program makes at most MaxPipes pipes and MaxFd file objects
CloseOffered(fr) ==
    /\ kmode = "user"
    /\ fr.eax = SysPipe => Len(pipes) < MaxPipes
    /\ fr.eax = SysNullFd => Len(files) < MaxFd

\* int 0x20 in a kernel built with (oc) or without overflow checks
UserSyscallBuild(fr, oc) ==
    /\ kmode = "user"
    /\ Commit(syscall([Enter(fr, "none", TRUE) EXCEPT !.overflow_checks = oc]))

NextClose ==
    \/ \E fr \in CloseFrames, oc \in BOOLEAN : CloseOffered(fr) /\ UserSyscallBuild(fr, oc)
    \/ TimerInterrupt
    \/ RunContinuation

SpecClose == Init /\ [][NextClose]_vars

\* C19: close(fd) on a descriptor that is not open in the calling process
\* returns to the caller and leaves its fd table and its next_fd, hence the
\* descriptor its next new_fd returns, as they were, whatever u32 fd is
C19_CloseUnopenedNoop ==
    [][\A fr \in CloseFrames, oc \in BOOLEAN :
          LET cur == scheduler.current_process IN
          (fr.eax = SysClose /\ get_fd(scheduler, cur, fr.arg.fd) = 0 /\ UserSyscallBuild(fr, oc))
          => /\ kmode' = "user"
             /\ scheduler'.processes[cur].fdtable = scheduler.processes[cur].fdtable
             /\ scheduler'.processes[cur].next_fd = scheduler.processes[cur].next_fd
             /\ new_fd(scheduler', cur, ConsoleFile).fd = new_fd(scheduler, cur, ConsoleFile).fd]_vars

----------------------------------------------------------------------------
(* Frames and the PTEs that map them (specification SpecExec): processes
   fork, store to their pages, exec the image again and exit *)

ExecFrames ==
    {SysFrame(SysExit, <<0, 0>>, <<0, 0>>, 0, 0, <<0, 0>>, 0),
     SysFrame(SysFork, <<0, 0>>, ResultPtr, 0, 0, <<0, 0>>, 0)}
    \cup {SysFrame(SysExec, ArgPtr, ResultPtr, elf, 0, <<0, 0>>, 0) : elf \in {0, 1}}

\* the programs fork while there is a pid left, and exec an image while the
\* user pages of the model have room for its stack
ExecOffered(fr) ==
    /\ kmode = "user"
    /\ fr.eax = SysFork => scheduler.next_pid <= MaxPid
    /\ fr.eax = SysExec /\ fr.arg.fd \in Elves => find_unused_userspace(MemState) # 0

NextExec ==
    \/ \E fr \in ExecFrames : ExecOffered(fr) /\ UserSyscall(fr)
    \/ \E page \in MemStorePages, v \in MemVals : UserStore(page, v)
    \/ TimerInterrupt
    \/ RunContinuation

SpecExec == Init /\ [][NextExec]_vars

\* the frames on the free list of the allocator, from frame f on
RECURSIVE FreeFrom(_, _, _)
FreeFrom(M, f, n) ==
    IF f = 0 \/ n = 0 THEN {} ELSE {f} \cup FreeFrom(M, M.info[f].rc \div PAGE_SIZE, n - 1)

\* the allocator has handed the frame out and has not got it back
Allocated(M, f) ==
    /\ f >= PhysAllocStart
    /\ M.palloc.next_addr = 0 \/ f < M.palloc.next_addr
    /\ f \notin FreeFrom(M, M.palloc.freelist_head, MaxFrame)

\* the PTEs of user pages that map frame f, in the address spaces of the
\* processes of the table
LivePtes(M, S, f) ==
    {<<p, page>> \in (DOMAIN S.processes) \X UserPages :
        LET pte == HwPte([M EXCEPT !.cr3 = S.processes[p].env.cr3], page)
        IN pte.present /\ pte.paddr = f}

\* the frames the kernel has mapped in kernel space after boot
KernelMapped(M) == {M.kpt[page].paddr : page \in {q \in DOMAIN M.kpt : M.kpt[q].present}}

\* C20: every allocated frame of user data that is not copy-on-write and has
\* refcount r is mapped by exactly r + 1 PTEs of the address spaces of the
\* processes, and no refcount is below zero
C20_RefcountCountsMappings ==
    kmode # "panic"
    => \A f \in PhysAllocStart .. MaxFrame :
          (Allocated(MemState, f) /\ phys[f].kind = "data" /\ f \notin KernelMapped(MemState))
          => /\ info[f].rc >= 0
             /\ ~info[f].cow => Cardinality(LivePtes(MemState, scheduler, f)) = info[f].rc + 1

\* C28: exec with an index that names no image writes BadProcess to the result
\* slot and returns to the caller with its trap frame as it was; exec of an
\* image replaces the trap frame by the entry frame of the image and leaves the
\* result slot alone; the caller's pid and fd table stay as they are
C28_Exec ==
    [][\A fr \in ExecFrames :
           (fr.eax = SysExec /\ UserSyscall(fr) /\ kpanic' = "")
           => /\ kmode' = "user"
              /\ scheduler'.current_process = scheduler.current_process
              /\ scheduler'.processes[scheduler.current_process].fdtable
                   = scheduler.processes[scheduler.current_process].fdtable
              /\ scheduler'.processes[scheduler.current_process].next_fd
                   = scheduler.processes[scheduler.current_process].next_fd
              /\ IF fr.arg.fd \in Elves
                 THEN /\ sys_exec(Enter(fr, "none", TRUE)).k.frame = UserFrame
                      /\ sys_exec(Enter(fr, "none", TRUE)).val = <<>>
                      /\ ReadVirt(MemState', ResultPtr[1]) = ReadVirt(MemState, ResultPtr[1])
                 ELSE /\ sys_exec(Enter(fr, "none", TRUE)).k.frame = fr
                      /\ ReadVirt(MemState', ResultPtr[1]) = DataFrame(<<0>>)
                      /\ \A page \in UserPages \ {ResultPtr[1]} :
                            HwPte(MemState, page).present
                            => ReadVirt(MemState', page) = ReadVirt(MemState, page)]_vars

\* a forked process whose result slot held another value has called exec with a
\* bad index and runs on with BadProcess in the slot
C28_Witness ==
    /\ last.path = "exec_bad"
    /\ kmode = "user"
    /\ Cardinality(DOMAIN scheduler.processes) = 2
    /\ ReadVirt(MemState, ResultPtr[1]) = DataFrame(<<0>>)
    /\ \E q \in DOMAIN scheduler.processes : ReadAs(q, ResultPtr[1]) = DataFrame(<<8>>)

\* the step removes the current process from the process table and another
\* process is left to run
ProcessExits ==
    /\ scheduler.current_process \in DOMAIN scheduler.processes
    /\ scheduler.current_process \notin DOMAIN scheduler'.processes
    /\ kpanic' = ""

\* the frames only the active address space uses: its page directory, its
\* meta-pagetable, its user pagetables and the frames its user pages map
\* without sharing them
OwnFrames(M) ==
    {M.cr3, MetaFrame(M)}
    \cup {M.phys[M.cr3].pde[pde] : pde \in {d \in UserPde : M.phys[M.cr3].pde[d] # 0}}
    \cup {HwPte(M, page).paddr :
            page \in {q \in UserPages : /\ HwPte(M, q).present
                                        /\ HwPte(M, q).paddr # ZeroFrame
                                        /\ M.info[HwPte(M, q).paddr].rc = 0}}

\* C23: when a process exits, its PCB is unlinked from the ring and the frames
\* only its address space used (user pages, page directory, meta-pagetable) are
\* on the allocator's free list afterwards
C23_ExitReleasesFrames ==
    [][ProcessExits =>
         /\ \A q \in DOMAIN scheduler'.processes :
               /\ scheduler'.processes[q].next # scheduler.current_process
               /\ scheduler'.processes[q].prev # scheduler.current_process
         /\ scheduler'.first # scheduler.current_process
         /\ OwnFrames(MemState) \subseteq FreeFrom(MemState', palloc'.freelist_head, MaxFrame + 1)]_vars

----------------------------------------------------------------------------
(* The physical allocator alone (specification SpecAlloc): the kernel has
   booted and has taken frames from the bump allocator until MaxAllocFrames
   are left; a caller then allocates, shares and frees frames.  `last` keeps
   the caller's account: refs[f] is the number of references held to frame f
   (0: not allocated), order lists the frames whose last reference has been
   released and that alloc has not returned since, oldest first.  The frame
   share or free allocates for the PageInfo array on its first write
   (internal) is accounted as allocated. *)

\* frames the bump allocator has left when the caller starts
MaxAllocFrames == 5
\* references the caller takes to one frame
MaxRefs == 2

\* n calls of alloc
RECURSIVE AllocMany(_, _)
AllocMany(M, n) == IF n = 0 THEN M ELSE AllocMany(Alloc(M).m, n - 1)

AllocMem == AllocMany(LoadedMem, MaxFrame + 1 - MaxAllocFrames - LoadedMem.palloc.next_addr)

\* the frames the caller deals with
CallerFrames == MaxFrame + 1 - MaxAllocFrames .. MaxFrame

\* the frame that backs the PageInfo array
InfoFrame(M) == M.kpt[PageInfoBasePage].paddr
\* the frame the call that led from M to M2 has allocated for the PageInfo array, else 0
Internal(M, M2) == IF InfoFrame(M2) # InfoFrame(M) THEN InfoFrame(M2) ELSE 0

\* the account after the call `path`, which returned or was given frame r and
\* allocated the frame internal (0: none) on the way
Account(path, r, internal, refs, order) ==
    [path |-> path, r |-> r, internal |-> internal,
     refs |-> IF internal \in CallerFrames THEN [refs EXCEPT ![internal] = @ + 1] ELSE refs,
     order |-> order,
     refs_before |-> last.refs, order_before |-> last.order, next_before |-> palloc.next_addr]

InitAlloc ==
    /\ InitMem(AllocMem)
    /\ scheduler = InitScheduler(cr3)
    /\ files = <<[kind |-> "console", pipe |-> 0]>>
    /\ pipes = <<>>
    /\ console = [rpos |-> 0, epos |-> 0, wpos |-> 0, buf |-> <<>>]
    /\ frame = UserFrame
    /\ kmode = "user"
    /\ pending = "noop"
    /\ iflag = TRUE
    /\ timer_fired = FALSE
    /\ globals = GlobalsBooted
    /\ last = [path |-> "none", r |-> 0, internal |-> 0,
               refs |-> [f \in CallerFrames |-> 0], order |-> <<>>,
               refs_before |-> [f \in CallerFrames |-> 0], order_before |-> <<>>,
               next_before |-> AllocMem.palloc.next_addr]

\* alloc has returned a.r
AllocDone(a) ==
    Commit([KState EXCEPT
              !.mem = a.m,
              !.last = Account("alloc", a.r, 0,
                               IF a.r \in CallerFrames THEN [last.refs EXCEPT ![a.r] = @ + 1]
                               ELSE last.refs,
                               SelectSeq(last.order, LAMBDA f : f # a.r))])

\* the caller calls alloc
PhysAlloc ==
    /\ kpanic = ""
    /\ AllocDone(Alloc(MemState))

\* share(f) has led to M2
ShareDone(M2, f) ==
    Commit([KState EXCEPT
              !.mem = M2,
              !.last = Account("share", f, Internal(MemState, M2),
                               [last.refs EXCEPT ![f] = @ + 1],
                               SelectSeq(last.order, LAMBDA g : g # Internal(MemState, M2)))])

\* the caller takes one more reference to a frame it holds
PhysShare(f) ==
    /\ kpanic = ""
    /\ last.refs[f] > 0
    /\ last.refs[f] < MaxRefs
    /\ ShareDone(share(MemState, f), f)

\* free(f) has led to M2
FreeDone(M2, f) ==
    Commit([KState EXCEPT
              !.mem = M2,
              !.last = Account("free", f, Internal(MemState, M2),
                               [last.refs EXCEPT ![f] = @ - 1],
                               IF last.refs[f] = 1 /\ M2.panic = ""
                               THEN Append(SelectSeq(last.order,
                                                     LAMBDA g : g # Internal(MemState, M2)), f)
                               ELSE SelectSeq(last.order,
                                              LAMBDA g : g # Internal(MemState, M2)))])

\* the caller releases one reference to a frame it holds
PhysFree(f) ==
    /\ kpanic = ""
    /\ last.refs[f] > 0
    /\ FreeDone(Free(MemState, f), f)

NextAlloc ==
    \/ PhysAlloc
    \/ \E f \in CallerFrames : PhysShare(f)
    \/ \E f \in CallerFrames : PhysFree(f)

SpecAlloc == InitAlloc /\ [][NextAlloc]_vars

\* the freelist, from its head along the links the free frames hold, cut off
\* after n frames
RECURSIVE FreelistFrom(_, _, _)
FreelistFrom(M, f, n) ==
    IF f = 0 \/ n = 0 THEN <<>>
    ELSE <<f>> \o FreelistFrom(M, M.info[f].rc \div PAGE_SIZE, n - 1)

Freelist == FreelistFrom(MemState, palloc.freelist_head, MaxFrame + 1)

\* C21: after any sequence of alloc and of free calls on allocated frames,
\* every free frame is on the freelist exactly once, the freelist holds no
\* allocated frame and has no cycle, and alloc never returns a frame that is
\* allocated at the time of the call
C21_FreelistExact ==
    /\ \A i, j \in 1 .. Len(Freelist) : i # j => Freelist[i] # Freelist[j]
    /\ {Freelist[i] : i \in 1 .. Len(Freelist)}
         = {last.order[i] : i \in 1 .. Len(last.order)}
    /\ \A i \in 1 .. Len(Freelist) : last.refs[Freelist[i]] = 0
    /\ last.path = "alloc" /\ last.r # 0
         => last.r \in CallerFrames /\ last.refs_before[last.r] = 0
    /\ last.internal # 0
         => last.internal \in CallerFrames /\ last.refs_before[last.internal] = 0

\* two frames are free while the caller still holds a shared one, and alloc
\* has just handed out a frame that had been freed
C21_Witness ==
    /\ Len(Freelist) = 2
    /\ \E f \in CallerFrames : last.refs[f] = MaxRefs
    /\ last.path = "alloc"
    /\ last.order_before # last.order

\* C29: alloc returns the most recently freed frame whenever a freed frame is
\* left (frames freed in the order f1..fn come back as fn..f1), takes a frame
\* from the bump allocator only when none is left, and returns None exactly
\* when none is left and the bump allocator has no address left
C29_AllocLifo ==
    last.path = "alloc" =>
        /\ last.order_before # <<>> =>
              /\ last.r = last.order_before[Len(last.order_before)]
              /\ last.order = SubSeq(last.order_before, 1, Len(last.order_before) - 1)
              /\ palloc.next_addr = last.next_before
        /\ last.order_before = <<>> => last.r = last.next_before
        /\ last.r = 0 <=> (last.order_before = <<>> /\ last.next_before = 0)

\* three frames were free and alloc has returned the one freed last
C29_Witness ==
    /\ last.path = "alloc"
    /\ Len(last.order_before) = 3
    /\ last.r # 0

----------------------------------------------------------------------------
(* The kernel heap's page-sized allocations (specification SpecHeap): kernel
   code allocates blocks larger than MAX_ALLOC, stores to some of their pages
   and deallocates them. `last` holds the live blocks and the frames the last
   call has passed to free. *)

\* the page counts of big allocations: the size is rounded up to a power of two
HeapBlockPages == {1, 2}
HeapVals == {8, 9}

\* _HeapAllocator::allocate, size > MAX_ALLOC :
\* [m |-> state after, r |-> first page of the block, 0 for Err(AllocError)]
heap_allocate_at(M, vaddr, pages) ==
    IF vaddr = 0 THEN [m |-> M, r |-> 0]
    ELSE [m |-> map_zeroed(M, vaddr, pages, MappingFlags(TRUE, FALSE)), r |-> vaddr]
heap_allocate(M, pages) == heap_allocate_at(M, find_unused_kernelspace(M, pages), pages)

\* the loop of _HeapAllocator::deallocate, size > MAX_ALLOC :
\* [m |-> state after, freed |-> the frames passed to free, in order]
RECURSIVE heap_deallocate_pages(_, _, _, _)
heap_deallocate_pages(M, page, count, freed) ==
    IF count = 0 \/ M.panic # "" THEN [m |-> M, freed |-> freed]
    ELSE LET mapping == get_mapping(M, page) IN
         IF ~mapping.present THEN [m |-> Panic(M, "unwrap on None"), freed |-> freed]
         ELSE heap_deallocate_pages(unmap(Free(M, mapping.paddr), page), page + 1, count - 1,
                                    Append(freed, mapping.paddr))
heap_deallocate(M, vaddr, pages) == heap_deallocate_pages(M, vaddr, pages, <<>>)

HeapAccount(path, blocks, freed) == [path |-> path, blocks |-> blocks, freed |-> freed]

InitHeap ==
    /\ InitMem(LoadedMem)
    /\ scheduler = InitScheduler(cr3)
    /\ files = <<[kind |-> "console", pipe |-> 0]>>
    /\ pipes = <<>>
    /\ console = [rpos |-> 0, epos |-> 0, wpos |-> 0, buf |-> <<>>]
    /\ frame = UserFrame
    /\ kmode = "user"
    /\ pending = "noop"
    /\ iflag = TRUE
    /\ timer_fired = FALSE
    /\ globals = GlobalsBooted
    /\ last = HeapAccount("none", {}, <<>>)

\* allocate has returned a.r
HeapAllocated(a, pages) ==
    Commit([KState EXCEPT
              !.mem = a.m,
              !.last = HeapAccount("allocate",
                                   IF a.r = 0 THEN last.blocks ELSE last.blocks \cup {<<a.r, pages>>},
                                   <<>>)])

\* kernel code allocates a block of `pages` pages
HeapAllocate(pages) ==
    /\ kpanic = ""
    /\ HeapAllocated(heap_allocate(MemState, pages), pages)

\* the store has led to st.m
HeapStored(st) ==
    Commit([KState EXCEPT !.mem = st.m, !.last = HeapAccount("store", last.blocks, <<>>)])

\* kernel code stores to a page of a block it holds
HeapStore(page, v) ==
    /\ kpanic = ""
    /\ \E b \in last.blocks : page \in b[1] .. b[1] + b[2] - 1
    /\ HeapStored(Store(MemState, page, DataFrame(v), FALSE))

\* deallocate has led to d.m
HeapDeallocated(d, b) ==
    Commit([KState EXCEPT
              !.mem = d.m,
              !.last = HeapAccount("deallocate", last.blocks \ {b}, d.freed)])

\* kernel code drops a block it holds
HeapDeallocate(b) ==
    /\ kpanic = ""
    /\ b \in last.blocks
    /\ HeapDeallocated(heap_deallocate(MemState, b[1], b[2]), b)

NextHeap ==
    \/ \E pages \in HeapBlockPages : HeapAllocate(pages)
    \/ \E page \in HeapPages, v \in HeapVals : HeapStore(page, v)
    \/ \E b \in HeapPages \X HeapBlockPages : HeapDeallocate(b)

SpecHeap == InitHeap /\ [][NextHeap]_vars

\* the elements of a sequence
Elems(seq) == {seq[i] : i \in 1 .. Len(seq)}

\* C22 (alloc and free): alloc cannot return the zero page, as it is neither on
\* the freelist nor the next frame of the bump allocator, and no call passes
\* the zero page to free, the deallocation of a heap block whose pages were
\* mapped with map_zeroed and left untouched included
C22_ZeroPageNeverFreed ==
    /\ ZeroFrame \notin Elems(Freelist)
    /\ palloc.next_addr # ZeroFrame
    /\ ZeroFrame \notin Elems(last.freed)

----------------------------------------------------------------------------
(* The page-fault handler (specification SpecFault): processes fork, and the
   running process or kernel code working for it touches a page; every
   access that faults is one run of page_fault. `last` holds the access. *)

\* the pages touched: the null page, the pages of the image, an unmapped user
\* page, a kernel page and the first page of the PageInfo array
FaultPages == {0, ImageDataPage, ImageBssPage, StackPage, HolePage, KernelPage, PageInfoBasePage}

\* the error code the CPU pushes for a faulting access
PageFaultCode(M, page, write, user) ==
    [present |-> HwPte(M, page).present, write |-> write, user |-> user]

\* page_fault after its MMU part has returned pf; no custom handler is
\* installed (with_page_fault_handler is used by the backtrace of panic only)
page_fault(K, pf, user) ==
    IF pf.m.panic # "" THEN KPanic([K EXCEPT !.mem = pf.m], pf.m.panic)
    ELSE IF pf.r THEN [K EXCEPT !.mem = pf.m, !.kmode = "user"]
    ELSE IF user THEN page_fault_kill([K EXCEPT !.mem = pf.m])
    ELSE KPanic(K, "Unhandled pagefault")

\* the trap frame of the access is pushed
FaultEnter(page, write, user) ==
    [KState EXCEPT !.kmode = "kernel", !.iflag = FALSE,
                   !.last = [path |-> "pagefault", page |-> page, write |-> write,
                             user |-> user, unchecked |-> FALSE, ebx_unchecked |-> FALSE]]

\* an access of the running process (user) or of kernel code faults
PageFault(page, write, user) ==
    /\ kmode = "user"
    /\ Faults(MemState, page, write, user)
    /\ Commit(page_fault(FaultEnter(page, write, user),
                         page_fault_mmu(MemState, page, PageFaultCode(MemState, page, write, user)),
                         user))

FaultFrames == {SysFrame(SysFork, <<0, 0>>, ResultPtr, 0, 0, <<0, 0>>, 0)}

NextFault ==
    \/ \E fr \in FaultFrames : Offered(fr, MaxPid, MaxPipeLen) /\ UserSyscall(fr)
    \/ \E page \in FaultPages, write \in BOOLEAN, user \in BOOLEAN : PageFault(page, write, user)
    \/ TimerInterrupt
    \/ RunContinuation

SpecFault == Init /\ [][NextFault]_vars

\* the step is a run of page_fault
FaultStep == kmode = "user" /\ last'.path = "pagefault"

\* the fault is a write to a present read-only page, user-accessible if the
\* access came from user mode, for which cow_if_needed returns true
CowFault(M, page, write, user) ==
    /\ HwPte(M, page).present
    /\ write
    /\ ~HwPte(M, page).writable
    /\ user => HwPte(M, page).user
    /\ cow_if_needed(M, page).r

\* no process is removed and the access can be restarted
FaultResolved ==
    /\ kpanic' = ""
    /\ kmode' = "user"
    /\ DOMAIN scheduler'.processes = DOMAIN scheduler.processes
    /\ scheduler'.current_process = scheduler.current_process
    /\ ~Faults(MemState', last'.page, last'.write, last'.user)

\* exactly the current process is removed
FaultKilled ==
    DOMAIN scheduler'.processes = (DOMAIN scheduler.processes) \ {scheduler.current_process}

\* C24 as stated: page_fault resolves exactly the copy-on-write faults; any
\* other fault in user mode removes the current process and schedules another
\* one, and any other fault in kernel mode panics
C24_PageFaultOutcome ==
    [][FaultStep =>
         IF CowFault(MemState, last'.page, last'.write, last'.user) THEN FaultResolved
         ELSE IF last'.user
         THEN /\ FaultKilled
              /\ kpanic' = ""
              /\ scheduler'.current_process \in DOMAIN scheduler'.processes
         ELSE kpanic' # "" /\ DOMAIN scheduler'.processes = DOMAIN scheduler.processes]_vars

\* C24, amended: as above, but the process that takes the place of the one
\* removed exists only if a process is left; the kernel panics when the last
\* process is removed
C24_PageFaultOutcomeIfLeft ==
    [][FaultStep =>
         IF CowFault(MemState, last'.page, last'.write, last'.user) THEN FaultResolved
         ELSE IF last'.user
         THEN /\ FaultKilled
              /\ IF DOMAIN scheduler'.processes # {}
                 THEN kpanic' = "" /\ scheduler'.current_process \in DOMAIN scheduler'.processes
                 ELSE kpanic' # ""
         ELSE kpanic' # "" /\ DOMAIN scheduler'.processes = DOMAIN scheduler.processes]_vars

\* a process has written to a page it shares after a fork and has got its own
\* copy, and later a process was killed by a fault while another one was left
C24_Witness ==
    /\ last.path = "pagefault"
    /\ last.user
    /\ last.page = HolePage
    /\ kpanic = ""
    /\ Cardinality(DOMAIN scheduler.processes) = 1
    /\ Cardinality({f \in PhysAllocStart .. MaxFrame : phys[f] = DataFrame(<<7>>)}) = 2

----------------------------------------------------------------------------
(* The preemption timer (specification SpecTimer): a syscall is entered, runs
   and returns as separate steps, so that the timer can fire while the kernel
   works on it (the syscall gate leaves interrupts enabled) *)

TimerFrames ==
    {SysFrame(id, <<0, 0>>, <<0, 0>>, 0, 0, <<0, 0>>, 0) : id \in {SysExit, SysYieldCpu}}
    \cup {SysFrame(id, <<0, 0>>, ResultPtr, 0, 0, <<0, 0>>, 0) : id \in {SysPipe, SysFork}}
    \cup {SysFrame(SysRead, ArgPtr, ResultPtr, 3, 0, BufPtr, 1)}

\* int 0x20 : the entry stub has pushed the trap frame, the handler has not run yet
SyscallEntry(fr) ==
    /\ kmode = "user"
    /\ Commit(Enter(fr, "entry", TRUE))

\* the PIT interrupt while the kernel works on a syscall
KernelTimerInterrupt ==
    /\ kmode = "kernel"
    /\ iflag
    /\ Commit(handle_interrupt([KState EXCEPT !.last.path = "ktimer"], FALSE))

\* the syscall handler runs and the kernel leaves through iret or a continuation
SyscallRun ==
    /\ kmode = "kernel"
    /\ Commit(syscall([KState EXCEPT !.last.path = "none"]))

NextTimer ==
    \/ \E fr \in TimerFrames : Offered(fr, MaxPid, MaxPipeLen) /\ SyscallEntry(fr)
    \/ KernelTimerInterrupt
    \/ SyscallRun
    \/ TimerInterrupt
    \/ RunContinuation

SpecTimer == Init /\ [][NextTimer]_vars

\* C26 (the deferred reschedule): a reschedule that a timer interrupt in kernel
\* context has left pending is carried out, and the flag cleared, before the
\* kernel returns to userspace: no process runs in userspace with the flag set
C26_NoPendingInUserspace == kmode = "user" => ~timer_fired

----------------------------------------------------------------------------
(* Round-robin order (specification SpecRR): processes fork, yield, wait for
   one another and exit, and the timer preempts them. `last` counts, for
   every process P, how often each other process was selected since
   load_next_process last selected P. *)

\* pids fork is offered up to
MaxRRPid == 3
RRPids == 1 .. MaxRRPid
\* a count of selections; the count of a process that did not exist, or was
\* blocked, at some time since the selection the count starts at is void
Count(n) == [valid |-> TRUE, n |-> n]
Void == [valid |-> FALSE, n |-> 0]

RRFrames ==
    {SysFrame(id, <<0, 0>>, <<0, 0>>, 0, 0, <<0, 0>>, 0) : id \in {SysExit, SysYieldCpu}}
    \cup {SysFrame(SysFork, <<0, 0>>, ResultPtr, 0, 0, <<0, 0>>, 0)}
    \cup {SysFrame(SysWait, ArgPtr, <<0, 0>>, pid, 0, <<0, 0>>, 0) : pid \in RRPids}

\* process q exists in S and is not blocked
Unblocked(S, q) == q \in DOMAIN S.processes /\ S.processes[q].block.kind = "none"

\* the counts after load_next_process has selected sel (0: no selection)
Counted(cnt, sel) ==
    [p \in RRPids |->
        [q \in RRPids |->
            IF p = sel THEN (IF q = sel THEN Void ELSE Count(0))
            ELSE IF q = sel /\ cnt[p][q].valid THEN Count(Min(cnt[p][q].n + 1, 2))
            ELSE cnt[p][q]]]

\* the counts of processes that are gone or blocked in S are void
Voided(cnt, S) ==
    [p \in RRPids |->
        [q \in RRPids |-> IF p \in DOMAIN S.processes /\ Unblocked(S, q) THEN cnt[p][q] ELSE Void]]

\* the process load_next_process has selected on the way to K, 0 if none
Selection(K) == IF K.kmode = "cont" THEN K.sched.current_process ELSE 0

\* the account after a kernel path that ended in K:
\*   sel     : the process selected, prev : the one selected before it
\*   before  : the counts for sel as they were when it was selected
\*   waited  : sel was blocked at some time since it was selected before
\*   blocked : the processes that were blocked at some time since they were selected
RRAccount(K) ==
    [path |-> K.last.path, unchecked |-> K.last.unchecked, ebx_unchecked |-> K.last.ebx_unchecked,
     sel |-> Selection(K),
     prev |-> IF last.sel # 0 THEN last.sel ELSE last.prev,
     before |-> IF Selection(K) # 0 THEN Voided(last.cnt, K.sched)[Selection(K)]
                ELSE [q \in RRPids |-> Void],
     waited |-> Selection(K) \in last.blocked,
     blocked |-> {q \in RRPids : /\ q \in DOMAIN K.sched.processes
                                 /\ \/ K.sched.processes[q].block.kind # "none"
                                    \/ q \in last.blocked /\ q # Selection(K)},
     cnt |-> Voided(Counted(last.cnt, Selection(K)), K.sched)]

RRDone(K) == Commit([K EXCEPT !.last = RRAccount(K)])

InitRR ==
    /\ InitMem(LoadedMem)
    /\ scheduler = InitScheduler(cr3)
    /\ files = <<[kind |-> "console", pipe |-> 0]>>
    /\ pipes = <<>>
    /\ console = [rpos |-> 0, epos |-> 0, wpos |-> 0, buf |-> <<>>]
    /\ frame = UserFrame
    /\ kmode = "user"
    /\ pending = "noop"
    /\ iflag = TRUE
    /\ timer_fired = FALSE
    /\ globals = GlobalsBooted
    /\ last = [path |-> "none", unchecked |-> FALSE, ebx_unchecked |-> FALSE,
               sel |-> 0, prev |-> 0, before |-> [q \in RRPids |-> Void],
               waited |-> FALSE, blocked |-> {},
               cnt |-> [p \in RRPids |-> [q \in RRPids |-> Void]]]

\* int 0x20 from the running process
RRSyscall(fr) ==
    /\ kmode = "user"
    /\ RRDone(syscall(Enter(fr, "none", TRUE)))

\* the PIT interrupt while a process runs
RRTimer ==
    /\ kmode = "user"
    /\ RRDone(handle_interrupt(Enter(frame, "timer", FALSE), TRUE))

\* continuation(frame), then the return to userspace
RRContinuation ==
    /\ kmode = "cont"
    /\ RRDone(IF pending = "syscall"
              THEN syscall([KState EXCEPT !.last.path = "none", !.pending = "noop",
                                          !.kmode = "kernel"])
              ELSE Iret([KState EXCEPT !.last.path = "none"]))

NextRR ==
    \/ \E fr \in RRFrames : Offered(fr, MaxRRPid, MaxPipeLen) /\ RRSyscall(fr)
    \/ RRTimer
    \/ RRContinuation

SpecRR == InitRR /\ [][NextRR]_vars

\* C25 as stated: between two consecutive selections of a process, every
\* other process that existed and stayed unblocked all the time was selected
\* exactly once; so two processes that only compute are selected in turn
C25_RoundRobinAny ==
    last.sel # 0 =>
        /\ \A q \in RRPids : last.before[q].valid => last.before[q].n = 1
        /\ (last.prev = last.sel) => \A q \in RRPids : last.before[q] = Void

\* C25, amended: the same for a process that itself stayed unblocked between
\* its two selections (while it is blocked the others have more than one turn)
C25_RoundRobin ==
    last.sel # 0 /\ ~last.waited =>
        /\ \A q \in RRPids : last.before[q].valid => last.before[q].n = 1
        /\ (last.prev = last.sel) => \A q \in RRPids : last.before[q] = Void

\* process 1 is selected again after process 2 had its turn in between, by
\* timer ticks, with both processes there and unblocked all the time
C25_Witness ==
    /\ last.path = "timer"
    /\ last.sel = 1
    /\ last.prev = 2
    /\ last.before[2] = Count(1)
    /\ last.cnt[2][1] = Count(1)
    /\ DOMAIN scheduler.processes = {1, 2}

----------------------------------------------------------------------------
(* The console ring alone (specification SpecConsole): ConsoleBuffer::read
   runs load by load and store by store, and recv_input runs from an
   interrupt between any two of its steps. `console.buf` holds all
   CONSOLE_BUFSIZE cells (cell i at index i + 1). `last` holds the locals of the
   read in progress and the account of the bytes:
     pc, len, w, r, out : position of read, buf.len(), its copies of wpos and
                          rpos, the bytes copied so far
     avail              : bytes in the ring when read loaded wpos
     stored             : the bytes recv_input has stored and no read has returned
     inputs, reads      : calls of recv_input and of read so far
     event, full, ring  : the last call that finished; for recv_input whether
                          the ring was full, and the ring before the call *)

\* bytes recv_input is given in one run, the bytes themselves, lengths of read buffers
MaxConsoleInput == 3
ConsoleChars == {65, 66}
ReadLens == {1, 3}
\* calls of read in one run
MaxReads == 2
\* free cells left in the ring that has been filling up
FreeCells == 2

\* ConsoleBuffer::recv_input on the whole ring
recv_input_overwriting(C, c) ==
    [C EXCEPT !.buf[C.wpos + 1] = c, !.wpos = (C.wpos + 1) % CONSOLE_BUFSIZE]

recv_input(C, c) ==
    IF C.wpos = (IF C.rpos = 0 THEN CONSOLE_BUFSIZE - 1 ELSE C.rpos - 1) THEN C
    ELSE [C EXCEPT !.buf[C.wpos + 1] = c, !.wpos = (C.wpos + 1) % CONSOLE_BUFSIZE]

\* the number of bytes between rpos and wpos
Available(rpos, wpos) == (wpos + CONSOLE_BUFSIZE - rpos) % CONSOLE_BUFSIZE

\* the bytes of the ring from rpos up to wpos, oldest first
RingBytes(C) ==
    [i \in 1 .. Available(C.rpos, C.wpos) |-> C.buf[((C.rpos + i - 1) % CONSOLE_BUFSIZE) + 1]]

\* the ring after boot, and a ring that has wrapped around and is FreeCells
\* bytes short of full (cell i was last written with i % 256)
FreshRing == [rpos |-> 0, epos |-> 0, wpos |-> 0, buf |-> [i \in 1 .. CONSOLE_BUFSIZE |-> 0]]
FilledRing ==
    [rpos |-> CONSOLE_BUFSIZE - 2, epos |-> CONSOLE_BUFSIZE - 2,
     wpos |-> (CONSOLE_BUFSIZE - 2 + CONSOLE_BUFSIZE - 1 - FreeCells) % CONSOLE_BUFSIZE,
     buf |-> [i \in 1 .. CONSOLE_BUFSIZE |-> (i - 1) % 256]]

ReadIdle == [pc |-> "idle", len |-> 0, w |-> 0, r |-> 0, out |-> <<>>, avail |-> 0]

InitConsole ==
    /\ InitMem(LoadedMem)
    /\ scheduler = InitScheduler(cr3)
    /\ files = <<[kind |-> "console", pipe |-> 0]>>
    /\ pipes = <<>>
    /\ console \in {FreshRing, FilledRing}
    /\ frame = UserFrame
    /\ kmode = "user"
    /\ pending = "noop"
    /\ iflag = TRUE
    /\ timer_fired = FALSE
    /\ globals = GlobalsBooted
    /\ last = [read |-> ReadIdle, stored |-> RingBytes(console), inputs |-> 0, reads |-> 0,
               event |-> "none", full |-> FALSE, ring |-> console, returned |-> <<>>]

\* the console and the account change, the rest of the kernel does not
ConsoleStep(C, L) ==
    /\ console' = C
    /\ last' = L
    /\ UNCHANGED <<phys, info, palloc, cr3, kpt, kpanic, scheduler, files, pipes, frame,
                   kmode, pending, iflag, timer_fired, globals, shadow>>

\* the keyboard or serial interrupt delivers a byte
ConsoleInput(c) ==
    /\ last.inputs < MaxConsoleInput
    /\ ConsoleStep(recv_input(console, c),
                   [last EXCEPT !.inputs = @ + 1,
                                !.event = "recv_input",
                                !.full = Available(console.rpos, console.wpos) = CONSOLE_BUFSIZE - 1,
                                !.ring = console,
                                !.stored = IF recv_input(console, c) # console THEN Append(@, c) ELSE @])

\* read is called with a buffer of len bytes: the lock is taken, the echo is
\* brought up to date
ReadCall(len) ==
    /\ last.read.pc = "idle"
    /\ last.reads < MaxReads
    /\ ConsoleStep(handle_echo(console),
                   [last EXCEPT !.read = [ReadIdle EXCEPT !.pc = "load", !.len = len],
                                !.reads = @ + 1,
                                !.event = "none"])

\* read loads wpos and rpos
ReadLoad ==
    /\ last.read.pc = "load"
    /\ ConsoleStep(console,
                   [last EXCEPT !.read.pc = "copy", !.read.w = console.wpos,
                                !.read.r = console.rpos,
                                !.read.avail = Available(console.rpos, console.wpos),
                                !.event = "none"])

\* one turn of the loop of read, or its exit
ReadCopy ==
    /\ last.read.pc = "copy"
    /\ ConsoleStep(console,
                   IF last.read.r # last.read.w /\ Len(last.read.out) < last.read.len
                   THEN [last EXCEPT !.read.out = Append(@, console.buf[last.read.r + 1]),
                                     !.read.r = (@ + 1) % CONSOLE_BUFSIZE,
                                     !.event = "none"]
                   ELSE [last EXCEPT !.read.pc = "store", !.event = "none"])

\* read stores rpos, releases the lock and returns the number of bytes copied
ReadReturn ==
    /\ last.read.pc = "store"
    /\ ConsoleStep([console EXCEPT !.rpos = last.read.r],
                   [last EXCEPT !.read = [last.read EXCEPT !.pc = "idle"],
                                !.event = "read",
                                !.returned = last.stored,
                                !.stored = SubSeq(@, Len(last.read.out) + 1, Len(@))])

NextConsole ==
    \/ \E c \in ConsoleChars : ConsoleInput(c)
    \/ \E len \in ReadLens : ReadCall(len)
    \/ ReadLoad
    \/ ReadCopy
    \/ ReadReturn

SpecConsole == InitConsole /\ [][NextConsole]_vars

\* C27: the bytes successive reads return are the bytes recv_input has stored,
\* in arrival order and each once; recv_input drops a byte only when the ring
\* is full and leaves the ring as it is then; a read returns
\* min(buf_len, bytes available) bytes
C27_ConsoleFifo ==
    /\ last.read.pc \in {"idle", "load"} => RingBytes(console) = last.stored
    /\ last.event = "read" =>
          /\ Len(last.read.out) = Min(last.read.len, last.read.avail)
          /\ Len(last.read.out) <= Len(last.returned)
          /\ last.read.out = SubSeq(last.returned, 1, Len(last.read.out))
    /\ last.event = "recv_input" =>
          /\ (console = last.ring) = last.full
          /\ ~last.full => /\ console.rpos = last.ring.rpos
                           /\ Available(console.rpos, console.wpos)
                                = Available(last.ring.rpos, last.ring.wpos) + 1
                           /\ \A i \in 1 .. CONSOLE_BUFSIZE :
                                 i # last.ring.wpos + 1 => console.buf[i] = last.ring.buf[i]

\* a read of three bytes has returned while the ring was wrapping around, two
\* bytes having arrived during the read, one of which found the ring full
C27_Witness ==
    /\ last.event = "read"
    /\ Len(last.read.out) = 3
    /\ last.read.r < 3
    /\ last.inputs = 3
    /\ Len(last.stored) = CONSOLE_BUFSIZE - 1 - 3

----------------------------------------------------------------------------
(* The Global statics alone (specification SpecGlobal). `globals.flows` is the
   stack of control flows in the kernel: the flow that was running when the
   machine entered the kernel, and on top of it the handlers of the interrupts
   and faults that interrupted it; only the top one runs. Each flow is the
   sequence of the guards it holds, by the name of their Global. `last` tells
   what the last step was: [path, g, unwrap]. *)

\* handlers that interrupt one another
MaxNest == 2

\* the number of guards of g there are
RECURSIVE GuardsIn(_, _)
GuardsIn(flow, g) ==
    IF flow = <<>> THEN 0
    ELSE (IF Head(flow) = g THEN 1 ELSE 0) + GuardsIn(Tail(flow), g)

RECURSIVE GuardCountFrom(_, _, _)
GuardCountFrom(flows, g, i) ==
    IF i > Len(flows) THEN 0 ELSE GuardsIn(flows[i], g) + GuardCountFrom(flows, g, i + 1)

GuardCount(G, g) == GuardCountFrom(G.flows, g, 1)

\* the sequence without its i-th element
Without(seq, i) == SubSeq(seq, 1, i - 1) \o SubSeq(seq, i + 1, Len(seq))

\* flags cleared by dropping every guard of a flow, as its return does
RECURSIVE drop_all(_, _)
drop_all(cells, flow) ==
    IF flow = <<>> THEN cells
    ELSE drop_all([cells EXCEPT ![Head(flow)] = drop(@)], Tail(flow))

InitGlobal ==
    /\ InitMem(LoadedMem)
    /\ scheduler = InitScheduler(cr3)
    /\ files = <<[kind |-> "console", pipe |-> 0]>>
    /\ pipes = <<>>
    /\ console = FreshRing
    /\ frame = UserFrame
    /\ kmode = "user"
    /\ pending = "noop"
    /\ iflag = TRUE
    /\ timer_fired = FALSE
    /\ globals = GlobalsAtBoot
    /\ last = [path |-> "none", g |-> "MMU", unwrap |-> FALSE]

\* the statics, the panic message and the account change
GlobalStep(G, msg, L) ==
    /\ globals' = G
    /\ kpanic' = msg
    /\ last' = L
    /\ UNCHANGED <<phys, info, palloc, cr3, kpt, scheduler, files, pipes, console, frame,
                   kmode, pending, iflag, timer_fired, shadow>>

\* the running flow calls g.take(); with unwrap it calls unwrap() or expect()
\* on the result, otherwise it goes on without the resource when it gets None
GlobalTaken(g, unwrap, t) ==
    GlobalStep([globals EXCEPT !.cells[g] = t.cell,
                               !.flows[Len(globals.flows)] = IF t.some THEN Append(@, g) ELSE @],
               IF ~t.some /\ unwrap THEN "called Option::unwrap() on a None value" ELSE "",
               [path |-> "take", g |-> g, unwrap |-> unwrap])

GlobalTake(g, unwrap) ==
    /\ kpanic = ""
    /\ GlobalTaken(g, unwrap, take(globals.cells[g]))

\* g.take_and_leak().unwrap(): the guard is forgotten, its drop never runs
GlobalTakenAndLeaked(g, t) ==
    GlobalStep([globals EXCEPT !.cells[g] = t.cell],
               IF ~t.some THEN "called Option::unwrap() on a None value" ELSE "",
               [path |-> "take_and_leak", g |-> g, unwrap |-> TRUE])

GlobalTakeAndLeak ==
    /\ kpanic = ""
    /\ GlobalTakenAndLeaked("IDT", take(globals.cells["IDT"]))

\* the running flow drops the i-th guard it holds
GlobalDrop(i) ==
    /\ kpanic = ""
    /\ i \in 1 .. Len(globals.flows[Len(globals.flows)])
    /\ GlobalStep([globals EXCEPT !.cells[globals.flows[Len(globals.flows)][i]] = drop(@),
                                  !.flows[Len(globals.flows)] = Without(@, i)],
                  "",
                  [path |-> "drop", g |-> globals.flows[Len(globals.flows)][i], unwrap |-> FALSE])

\* an interrupt or a fault arrives while the kernel runs
GlobalInterrupt ==
    /\ kpanic = ""
    /\ Len(globals.flows) <= MaxNest
    /\ GlobalStep([globals EXCEPT !.flows = Append(@, <<>>)], "",
                  [path |-> "interrupt", g |-> last.g, unwrap |-> FALSE])

\* the handler returns: its locals, the guards it holds among them, are dropped
GlobalReturn ==
    /\ kpanic = ""
    /\ Len(globals.flows) > 1
    /\ GlobalStep([cells |-> drop_all(globals.cells, globals.flows[Len(globals.flows)]),
                   flows |-> SubSeq(globals.flows, 1, Len(globals.flows) - 1)],
                  "",
                  [path |-> "iret", g |-> last.g, unwrap |-> FALSE])

NextGlobal ==
    \/ \E g \in Globals, unwrap \in BOOLEAN : GlobalTake(g, unwrap)
    \/ GlobalTakeAndLeak
    \/ \E i \in 1 .. Cardinality(Globals) : GlobalDrop(i)
    \/ GlobalInterrupt
    \/ GlobalReturn

SpecGlobal == InitGlobal /\ [][NextGlobal]_vars

\* C30: of each Global there is at most one guard, and none while its flag is
\* clear; take returns a guard exactly when the flag was clear and leaves the
\* flag set; a take while a guard is live, in whichever flow, returns none and
\* the caller's unwrap panics; after a drop the flag is clear and a take of
\* that Global returns a guard
C30_OneGuard ==
    /\ \A g \in Globals : GuardCount(globals, g) <= 1
    /\ [][/\ \A g \in Globals :
               /\ GuardCount(globals', g) <= 1
               /\ GuardCount(globals', g) = 1 => globals'.cells[g].taken
          /\ last'.path = "take" =>
               /\ globals'.cells[last'.g].taken
               /\ (GuardCount(globals', last'.g) = GuardCount(globals, last'.g) + 1)
                     <=> ~globals.cells[last'.g].taken
               /\ GuardCount(globals, last'.g) = 1 =>
                     /\ globals'.flows = globals.flows
                     /\ last'.unwrap => kpanic' # ""
               /\ ~globals.cells[last'.g].taken => kpanic' = ""
          /\ last'.path = "drop" =>
               /\ ~globals'.cells[last'.g].taken
               /\ GuardCount(globals', last'.g) = 0
               /\ take(globals'.cells[last'.g]).some]_vars

\* a handler that interrupted the holder of the MMU guard has called
\* MMU.take().unwrap() and panicked; the holder still has the only guard
C30_Witness ==
    /\ last = [path |-> "take", g |-> "MMU", unwrap |-> TRUE]
    /\ kpanic # ""
    /\ Len(globals.flows) = 2
    /\ globals.flows[1] = <<"MMU">>
    /\ globals.flows[2] = <<>>
    /\ globals.cells["MMU"].taken

----------------------------------------------------------------------------
(* cow_if_needed on the address spaces that fork and the stores of SpecMem
   produce *)

\* the pages cow_if_needed is looked at: the pages of the image, the stack, the
\* pagetable of the image as seen through the window, a page of the kernel
\* image and the first page of the PageInfo array
CowPages ==
    {ImageDataPage, ImageBssPage, StackPage, PagetableBasePage + PdeOf(ImageDataPage),
     KernelPage, PageInfoBasePage}

\* what the call c == cow_if_needed(M, page) has done to the page, whose
\* mapping was `mapping` and is now `new`
CowOutcome(M, page, c, mapping, new) ==
    /\ (mapping.paddr # ZeroFrame /\ M.info[mapping.paddr].cow /\ M.info[mapping.paddr].rc >= 1) =>
          /\ c.r
          /\ new.paddr # mapping.paddr
          /\ ~Allocated(M, new.paddr)
          /\ Allocated(c.m, new.paddr)
          /\ c.m.info[new.paddr] = DefaultInfo
          /\ c.m.phys[new.paddr] = M.phys[mapping.paddr]
          /\ new.present /\ new.writable
          /\ c.m.info[mapping.paddr] = [rc |-> M.info[mapping.paddr].rc - 1, cow |-> TRUE]
    /\ (mapping.paddr # ZeroFrame /\ M.info[mapping.paddr].cow /\ M.info[mapping.paddr].rc = 0) =>
          /\ c.r
          /\ new = [mapping EXCEPT !.writable = TRUE]
          /\ c.m.info[mapping.paddr] = DefaultInfo
          /\ c.m.palloc = M.palloc
    /\ (mapping.paddr # ZeroFrame /\ ~M.info[mapping.paddr].cow) =>
          /\ ~c.r
          /\ c.m = M
    /\ c.r <=> (mapping.paddr = ZeroFrame \/ M.info[mapping.paddr].cow)

CowChecked(M, page, c) ==
    c.m.panic = "" => CowOutcome(M, page, c, get_mapping(M, page), get_mapping(c.m, page))

\* C31: cow_if_needed on a page whose frame is COW with refcount r >= 1 maps
\* the page writable onto a frame that was not allocated before, with
\* refcount 0, cow clear and the old contents, and leaves the old frame at
\* refcount r - 1 with cow set; on a COW frame with refcount 0 it clears cow
\* and makes the same mapping writable, without allocating; on a page that is
\* neither COW nor the zero page it changes nothing; it returns true exactly
\* in the first two cases and for the zero page
C31_CowIfNeeded ==
    \A page \in CowPages :
        get_mapping(MemState, page).present => CowChecked(MemState, page, cow_if_needed(MemState, page))

\* the third process has stored to the page of the image that three processes
\* shared: it has a frame of its own, the frame it left is shared by two
C31_Witness ==
    /\ kpanic = ""
    /\ Cardinality(DOMAIN scheduler.processes) = 3
    /\ ReadVirt(MemState, ImageDataPage) = DataFrame(<<8>>)
    /\ info[HwPte(MemState, ImageDataPage).paddr] = DefaultInfo
    /\ \E f \in PhysAllocStart .. MaxFrame :
          /\ phys[f] = DataFrame(<<7>>)
          /\ info[f] = [rc |-> 1, cow |-> TRUE]

----------------------------------------------------------------------------
(* The cursor of the scheduler, on the process tables of SpecRR *)

\* the cursor, the head and the links of every process name processes of the
\* table (0 is None)
RingValid(S) ==
    DOMAIN S.processes # {} =>
        /\ S.next \in DOMAIN S.processes
        /\ S.first \in DOMAIN S.processes
        /\ \A p \in DOMAIN S.processes :
              /\ S.processes[p].next \in (DOMAIN S.processes) \cup {0}
              /\ S.processes[p].prev \in (DOMAIN S.processes) \cup {0}

\* R is S after remove_process(pid): a cursor on pid has moved to the
\* successor of pid or, pid being the last, to the head; any other stays
CursorRepaired(S, pid, R) ==
    /\ RingValid(R)
    /\ R.next = IF S.next # pid THEN S.next
                ELSE IF S.processes[pid].next # 0 THEN S.processes[pid].next
                ELSE R.first

\* C32: while there are processes the cursor names one of them, and so do the
\* head and the links load_next_process takes the next cursor from;
\* remove_process moves a cursor on the removed process to its successor, or
\* to the head if it was the last
C32_CursorInMap ==
    /\ RingValid(scheduler)
    /\ \A pid \in DOMAIN scheduler.processes :
          CursorRepaired(scheduler, pid, remove_process(scheduler, pid))

\* process 1 has forked and exited before anything else was scheduled: the
\* cursor was still on it when it was removed, and process 2 runs
C32_Witness ==
    /\ kpanic = ""
    /\ DOMAIN scheduler.processes = {2}
    /\ scheduler.next_pid = 3
    /\ last.sel = 2
    /\ last.prev = 0
    /\ scheduler.next = 2

----------------------------------------------------------------------------
(* map_zeroed (specification SpecZeroed): the first process forks and stores,
   and kernel code working for it calls map_zeroed. `last` holds the last
   call and the number of calls so far: [path, page, count, flags, calls]. *)

\* first pages, counts and values of the stores
ZeroedPages == {ImageDataPage, ImageBssPage, StackPage, HolePage}
ZeroedCounts == {0, 1, 2}
ZeroedVals == {8}
\* calls of map_zeroed in one run
MaxZeroed == 2

\* map_zeroed over the pages of a sequence
RECURSIVE map_zeroed_each(_, _, _)
map_zeroed_each(M, pages, flags) ==
    IF pages = <<>> THEN M
    ELSE map_zeroed_each(map(M, ZeroFrame, Head(pages), with_writable(flags, FALSE)),
                         Tail(pages), flags)

\* map_zeroed with count = 0 in a build without overflow checks: count - 1 wraps
\* to usize::MAX and the loop maps every page from vaddr up, those of the
\* kernel image included, which stops the machine
map_zeroed_wrapped(M, page, flags) ==
    Panic(map_zeroed_each(M, SortedSeq({q \in UserPages : q >= page}), flags),
          "kernel image mapped onto the zero page")

ZeroedAccount(path, page, count, flags, calls) ==
    [path |-> path, page |-> page, count |-> count, flags |-> flags, calls |-> calls,
     unchecked |-> FALSE, ebx_unchecked |-> FALSE]

InitZeroed ==
    /\ InitMem(LoadedMem)
    /\ scheduler = InitScheduler(cr3)
    /\ files = <<[kind |-> "console", pipe |-> 0]>>
    /\ pipes = <<>>
    /\ console = [rpos |-> 0, epos |-> 0, wpos |-> 0, buf |-> <<>>]
    /\ frame = UserFrame
    /\ kmode = "user"
    /\ pending = "noop"
    /\ iflag = TRUE
    /\ timer_fired = FALSE
    /\ globals = GlobalsBooted
    /\ last = ZeroedAccount("none", 0, 0, MappingFlags(FALSE, FALSE), 0)

\* a kernel path other than map_zeroed has ended in K
ZeroedDone(K) ==
    Commit([K EXCEPT !.last = ZeroedAccount(K.last.path, 0, 0, MappingFlags(FALSE, FALSE),
                                            last.calls)])

\* map_zeroed has led to memory m
MapZeroedDone(m, page, count, flags) ==
    Commit([KState EXCEPT
              !.mem = m,
              !.last = ZeroedAccount("map_zeroed", page, count, flags, last.calls + 1)])

\* kernel code calls map_zeroed(page << 12, count, flags) in a build with or
\* without overflow checks
MapZeroed(page, count, flags, overflow_checks) ==
    /\ kmode = "user"
    /\ last.calls < MaxZeroed
    /\ count > 0 => page + count - 1 \in UserPages
    /\ MapZeroedDone(IF count = 0 /\ ~overflow_checks
                     THEN map_zeroed_wrapped(MemState, page, flags)
                     ELSE map_zeroed(MemState, page, count, flags),
                     page, count, flags)

\* the outcome st of a store of the running process
ZeroedStored(st) ==
    ZeroedDone(IF st.ok THEN [KState EXCEPT !.mem = st.m, !.last.path = "store"]
               ELSE IF st.m.panic # "" THEN KPanic(Enter(frame, "store", FALSE), st.m.panic)
               ELSE page_fault_kill([Enter(frame, "store", FALSE) EXCEPT !.mem = st.m]))

ZeroedStore(page, v) ==
    /\ kmode = "user"
    /\ ZeroedStored(Store(MemState, page, DataFrame(<<v>>), TRUE))

\* fork
ZeroedFork ==
    /\ kmode = "user"
    /\ Offered(SysFrame(SysFork, <<0, 0>>, ResultPtr, 0, 0, <<0, 0>>, 0), MaxPid, MaxPipeLen)
    /\ ZeroedDone(syscall(Enter(SysFrame(SysFork, <<0, 0>>, ResultPtr, 0, 0, <<0, 0>>, 0),
                                "none", TRUE)))

NextZeroed ==
    \/ \E page \in ZeroedPages, count \in ZeroedCounts, w \in BOOLEAN, chk \in BOOLEAN :
          MapZeroed(page, count, MappingFlags(w, TRUE), chk)
    \/ \E page \in ZeroedPages \ {HolePage}, v \in ZeroedVals : ZeroedStore(page, v)
    \/ ZeroedFork

SpecZeroed == InitZeroed /\ [][NextZeroed]_vars

\* the user pages and the kernel page are mapped in M1 as they were in M,
\* except for the count pages from page on, which are mapped read-only onto
\* the zero page
ZeroedExactly(M, M1, page, count, flags) ==
    \A q \in UserPages \cup {KernelPage} :
        get_mapping(M1, q) = IF q \in page .. page + count - 1
                             THEN MappingPte(ZeroFrame, MappingFlags(FALSE, flags.user))
                             ELSE get_mapping(M, q)

\* C33: map_zeroed(vaddr, count, flags), unless it runs out of memory, maps
\* exactly the pages vaddr + i * 4096, 0 <= i < count, read-only onto the zero
\* page, whatever flags.writable is, and changes no other mapping; with
\* count = 0 it returns and has mapped nothing
C33_MapZeroed ==
    [][last'.path = "map_zeroed" =>
         /\ last'.count = 0 => kpanic' = ""
         /\ (last'.count = 0 \/ kpanic' = "") =>
               ZeroedExactly(MemState, MemState', last'.page, last'.count, last'.flags)]_vars

----------------------------------------------------------------------------
(* End-of-file on a pipe two processes hold (specifications SpecEof, LiveEof):
   the first process has made a pipe and forked, so that either process has a
   descriptor for either half; the processes read from the empty pipe, copy
   the write half with dup2, close descriptors and exit *)

\* the descriptor dup2 copies the write half to
EofDupFd == 1

EofFrames ==
    {SysFrame(SysClose, ArgPtr, <<0, 0>>, fd, 0, <<0, 0>>, 0) :
        fd \in {PipeReadFd, PipeWriteFd, EofDupFd}}
    \cup {SysFrame(SysDup2, ArgPtr, <<0, 0>>, PipeWriteFd, EofDupFd, <<0, 0>>, 0),
          SysFrame(SysRead, ArgPtr, ResultPtr, PipeReadFd, 0, BufPtr, 1),
          SysFrame(SysExit, <<0, 0>>, <<0, 0>>, 0, 0, <<0, 0>>, 0)}

InitEof == Start(ForkK([PipeK EXCEPT !.pipes = << <<>> >>]))

NextEof ==
    \/ \E fr \in EofFrames : kmode = "user" /\ UserSyscall(fr)
    \/ TimerInterrupt
    \/ RunContinuation

SpecEof == InitEof /\ [][NextEof]_vars

\* scheduling rounds keep occurring, as in LiveBlock
LiveEof ==
    /\ SpecEof
    /\ []<>(kmode # "user")
    /\ []<>(kmode # "cont")
    /\ WF_vars(Spin)

\* the read of process p has returned 0: p runs on, and its result slot says 0
ReadZero(p) ==
    /\ kmode = "user"
    /\ scheduler.current_process = p
    /\ ~ReadBlocked(p)
    /\ ResultSlot(MemState, scheduler, p) = <<0, 0>>

----------------------------------------------------------------------------
(* A blocked syscall that is dispatched again *)

\* load_next_process has selected a process that was blocked: the syscall
\* entry is the continuation about to be invoked
Redispatch == kmode = "cont" /\ pending = "syscall"

\* C35: from the selection of a blocked process by load_next_process to the
\* invocation of its continuation nothing runs but interrupt handlers, which
\* leave the processes, the files and the pipes alone, and the syscall the
\* continuation dispatches again returns to the process with a result: the
\* process is not blocked again
C35_RedispatchCompletes ==
    [][Redispatch =>
         \/ /\ Redispatch'
            /\ UNCHANGED <<scheduler, files, pipes, frame>>
         \/ /\ kpanic' = ""
            /\ kmode' = "user"
            /\ scheduler'.current_process = scheduler.current_process
            /\ scheduler'.processes[scheduler.current_process].block.kind = "none"]_vars

\* a process blocked in a read of the console has been selected after a byte
\* arrived, and its read is about to be dispatched again
C35_Witness ==
    /\ Redispatch
    /\ kpanic = ""
    /\ frame.eax = SysRead
    /\ frame.arg.fd = 0
    /\ console.rpos # console.wpos

----------------------------------------------------------------------------
(* The local echo of the console *)

(* int 0x20 enters the kernel through a trap gate, so the keyboard and the
   serial interrupt are taken while read and handle_echo run; both are
   followed through the points where they load and store the positions.
   last holds the call in progress and the account of the bytes:
     pc, caller     : position of the call, and whether it is handle_echo or read
     len, w, e, r   : buf.len(), and the call's copies of wpos, epos and rpos
     accepted       : the bytes recv_input has stored, oldest first
     echoed         : the bytes written to the serial port and the screen
     due            : the bytes accepted when the echo pass loaded wpos
     event          : the last call that finished
     inputs, calls  : interrupts and calls so far *)

\* interrupts and calls of handle_echo and read in one run
MaxEchoInputs == 3
MaxEchoCalls == 3
\* bytes one read asks for
EchoReadLens == {1}
\* keys that arrive back to back: one, or as many as the ring can hold
BurstLens == {1, CONSOLE_BUFSIZE - 1}

\* recv_input for the bytes lo .. hi of cs, one interrupt after the other; a
\* ring that has taken none of the first half is full and drops the rest
RECURSIVE recv_input_each(_, _, _, _)
recv_input_each(C, cs, lo, hi) ==
    IF lo > hi THEN C
    ELSE IF lo = hi THEN recv_input(C, cs[lo])
    ELSE LET half == recv_input_each(C, cs, lo, (lo + hi) \div 2)
         IN IF half.wpos = C.wpos THEN half
            ELSE recv_input_each(half, cs, (lo + hi) \div 2 + 1, hi)

\* the bytes of a burst of n keys after sent keys
Burst(sent, n) == [i \in 1 .. n |-> (sent + i) % 256]

EchoIdle == [pc |-> "idle", caller |-> "none", len |-> 0, w |-> 0, e |-> 0, r |-> 0]

InitEcho ==
    /\ InitMem(LoadedMem)
    /\ scheduler = InitScheduler(cr3)
    /\ files = <<[kind |-> "console", pipe |-> 0]>>
    /\ pipes = <<>>
    /\ console = FreshRing
    /\ frame = UserFrame
    /\ kmode = "user"
    /\ pending = "noop"
    /\ iflag = TRUE
    /\ timer_fired = FALSE
    /\ globals = GlobalsBooted
    /\ last = [call |-> EchoIdle, accepted |-> <<>>, echoed |-> <<>>, due |-> 0,
               event |-> "none", inputs |-> 0, sent |-> 0, calls |-> 0]

\* the keyboard or serial interrupt delivers n bytes, one interrupt after the other
EchoInputDone(C, cs) ==
    ConsoleStep(C, [last EXCEPT !.inputs = @ + 1,
                                !.sent = @ + Len(cs),
                                !.event = "recv_input",
                                !.accepted = @ \o SubSeq(cs, 1, Available(console.wpos, C.wpos))])

EchoInput(n) ==
    /\ last.inputs < MaxEchoInputs
    /\ EchoInputDone(recv_input_each(console, Burst(last.sent, n), 1, n), Burst(last.sent, n))

\* handle_echo (from run_kernel_tasks) or read is called: the read lock is taken
EchoCall(caller, len) ==
    /\ last.call.pc = "idle"
    /\ last.calls < MaxEchoCalls
    /\ ConsoleStep(console,
                   [last EXCEPT !.call = [EchoIdle EXCEPT !.pc = "echo_load", !.caller = caller,
                                                          !.len = len],
                                !.calls = @ + 1,
                                !.event = "none"])

\* _handle_echo loads wpos and epos
EchoLoad ==
    /\ last.call.pc = "echo_load"
    /\ ConsoleStep(console,
                   [last EXCEPT !.call.pc = "echo_loop", !.call.w = console.wpos,
                                !.call.e = console.epos,
                                !.due = Len(last.accepted),
                                !.event = "none"])

\* the loop of _handle_echo: the bytes from epos up to wpos go to the sinks
EchoLoop ==
    /\ last.call.pc = "echo_loop"
    /\ ConsoleStep(console,
                   [last EXCEPT !.call.pc = "echo_store",
                                !.call.e = last.call.w,
                                !.echoed = @ \o [i \in 1 .. Available(last.call.e, last.call.w) |->
                                                   console.buf[((last.call.e + i - 1) % CONSOLE_BUFSIZE) + 1]],
                                !.event = "none"])

\* _handle_echo stores epos; handle_echo releases the lock, read goes on
EchoStore ==
    /\ last.call.pc = "echo_store"
    /\ ConsoleStep([console EXCEPT !.epos = last.call.e],
                   [last EXCEPT !.call = IF last.call.caller = "read"
                                         THEN [last.call EXCEPT !.pc = "read_load"]
                                         ELSE EchoIdle,
                                !.event = "echo"])

\* read loads wpos and rpos
EchoReadLoad ==
    /\ last.call.pc = "read_load"
    /\ ConsoleStep(console,
                   [last EXCEPT !.call.pc = "read_copy", !.call.w = console.wpos,
                                !.call.r = console.rpos,
                                !.event = "none"])

\* the loop of read, the store of rpos and the release of the lock
EchoReadReturn ==
    /\ last.call.pc = "read_copy"
    /\ ConsoleStep([console EXCEPT !.rpos = (last.call.r + Min(last.call.len,
                                               Available(last.call.r, last.call.w)))
                                             % CONSOLE_BUFSIZE],
                   [last EXCEPT !.call = EchoIdle, !.event = "read"])

NextEcho ==
    \/ \E n \in BurstLens : EchoInput(n)
    \/ EchoCall("handle_echo", 0)
    \/ \E len \in EchoReadLens : EchoCall("read", len)
    \/ EchoLoad
    \/ EchoLoop
    \/ EchoStore
    \/ EchoReadLoad
    \/ EchoReadReturn

SpecEcho == InitEcho /\ [][NextEcho]_vars

\* x is an initial segment of y
IsPrefix(x, y) == Len(x) <= Len(y) /\ x = SubSeq(y, 1, Len(x))

----------------------------------------------------------------------------
(* The locks of the console ring *)

(* The kernel has one thread of control: handle_echo (run_kernel_tasks), read
   and can_read (a syscall, or can_unblock in load_next_process) are called
   one after the other, with interrupts enabled when the kernel was entered
   through the trap gate of int 0x20. The keyboard, serial and PIT handlers
   are entered through interrupt gates and run to their end.
   last holds, beside the fields of NoEntry:
     call                   : the call in progress in the kernel (pc "idle":
                              a process runs)
     irq                    : "recv_input" while the keyboard or serial handler
                              is between taking and releasing write_lock
     read_lock, write_lock  : the two locks
     inputs, calls, timers  : interrupts and calls so far *)

\* interrupts and calls in one run
MaxLockInputs == 2
MaxLockCalls == 2
MaxLockTimers == 2

LockCallers == {"handle_echo", "read", "can_read"}

InitLock ==
    /\ InitMem(LoadedMem)
    /\ scheduler = InitScheduler(cr3)
    /\ files = <<[kind |-> "console", pipe |-> 0]>>
    /\ pipes = <<>>
    /\ console = FreshRing
    /\ frame = UserFrame
    /\ kmode = "user"
    /\ pending = "noop"
    /\ iflag = TRUE
    /\ timer_fired = FALSE
    /\ globals = GlobalsBooted
    /\ last = [path |-> "none", unchecked |-> FALSE, ebx_unchecked |-> FALSE,
               call |-> EchoIdle, irq |-> "none", read_lock |-> FALSE, write_lock |-> FALSE,
               result |-> <<>>, inputs |-> 0, calls |-> 0, timers |-> 0]

\* the console, the pending flag and the account change, or an assertion fails
LockStep(C, L, fired, msg) ==
    /\ console' = C
    /\ last' = L
    /\ timer_fired' = fired
    /\ kpanic' = msg
    /\ UNCHANGED <<phys, info, palloc, cr3, kpt, scheduler, files, pipes, frame,
                   kmode, pending, iflag, globals, shadow>>

\* nothing has panicked and no interrupt handler is running
LockRunning == kpanic = "" /\ last.irq = "none"

\* assert!(!self.read_lock.swap(true, Ordering::Acquire), ...)
ReadLockSwap(L, then) ==
    IF L.read_lock THEN LockStep(console, L, timer_fired, "simultaneous read from console buffer")
    ELSE LockStep(console, [then EXCEPT !.read_lock = TRUE], timer_fired, "")

\* handle_echo, read or can_read is called and takes the read lock
LockCall(caller, len) ==
    /\ LockRunning
    /\ last.call.pc = "idle"
    /\ last.calls < MaxLockCalls
    /\ ReadLockSwap(last,
                    [last EXCEPT !.call = [EchoIdle EXCEPT
                                             !.pc = IF caller = "can_read" THEN "can_read"
                                                    ELSE "echo_load",
                                             !.caller = caller, !.len = len],
                                 !.calls = @ + 1])

\* _handle_echo loads wpos and epos
LockEchoLoad ==
    /\ LockRunning
    /\ last.call.pc = "echo_load"
    /\ LockStep(console, [last EXCEPT !.call.pc = "echo_loop", !.call.w = console.wpos,
                                      !.call.e = console.epos], timer_fired, "")

\* the loop of _handle_echo and the store of epos; handle_echo releases the lock
LockEchoStore ==
    /\ LockRunning
    /\ last.call.pc = "echo_loop"
    /\ LockStep([console EXCEPT !.epos = last.call.w],
                IF last.call.caller = "read" THEN [last EXCEPT !.call.pc = "read_load"]
                ELSE [last EXCEPT !.call = EchoIdle, !.read_lock = FALSE],
                timer_fired, "")

\* read loads wpos and rpos
LockReadLoad ==
    /\ LockRunning
    /\ last.call.pc = "read_load"
    /\ LockStep(console, [last EXCEPT !.call.pc = "read_copy", !.call.w = console.wpos,
                                      !.call.r = console.rpos], timer_fired, "")

\* the loop of read, the store of rpos and the release of the lock
LockReadReturn ==
    /\ LockRunning
    /\ last.call.pc = "read_copy"
    /\ LockStep([console EXCEPT !.rpos = (last.call.r + Min(last.call.len,
                                            Available(last.call.r, last.call.w)))
                                          % CONSOLE_BUFSIZE],
                [last EXCEPT !.call = EchoIdle, !.read_lock = FALSE], timer_fired, "")

\* can_read compares the positions and releases the lock
LockCanRead ==
    /\ LockRunning
    /\ last.call.pc = "can_read"
    /\ LockStep(console,
                [last EXCEPT !.call = EchoIdle, !.read_lock = FALSE,
                             !.result = <<console.rpos # console.wpos>>],
                timer_fired, "")

\* the keyboard or serial interrupt: recv_input takes the write lock
LockInput ==
    /\ LockRunning
    /\ last.inputs < MaxLockInputs
    /\ IF last.write_lock
       THEN LockStep(console, last, timer_fired, "simultaneous write to console buffer")
       ELSE LockStep(console, [last EXCEPT !.irq = "recv_input", !.write_lock = TRUE,
                                           !.inputs = @ + 1], timer_fired, "")

\* recv_input stores the byte and releases the write lock; the handler returns
LockInputReturn(c) ==
    /\ kpanic = ""
    /\ last.irq = "recv_input"
    /\ LockStep(recv_input(console, c), [last EXCEPT !.irq = "none", !.write_lock = FALSE],
                timer_fired, "")

\* the PIT handler has returned K: when it has called schedule, handle_echo
\* has taken the read lock in run_kernel_tasks
LockTimerDone(K) ==
    IF K.timer_fired THEN LockStep(console, [last EXCEPT !.timers = @ + 1], TRUE, "")
    ELSE IF last.read_lock
         THEN LockStep(console, last, FALSE, "simultaneous read from console buffer")
         ELSE LockStep(K.console, [last EXCEPT !.timers = @ + 1], FALSE, "")

\* the PIT interrupt, while a process runs or in the middle of a call
LockTimer ==
    /\ LockRunning
    /\ last.timers < MaxLockTimers
    /\ LockTimerDone(handle_interrupt([KState EXCEPT !.kmode = "kernel"],
                                      last.call.pc = "idle"))

NextLock ==
    \/ \E caller \in LockCallers, len \in EchoReadLens : LockCall(caller, len)
    \/ LockEchoLoad
    \/ LockEchoStore
    \/ LockReadLoad
    \/ LockReadReturn
    \/ LockCanRead
    \/ LockInput
    \/ \E c \in ConsoleChars : LockInputReturn(c)
    \/ LockTimer

SpecLock == InitLock /\ [][NextLock]_vars

\* C37: neither assertion on the locks of the console ring fails: while one
\* of handle_echo, read and can_read holds the read lock no other is called,
\* and recv_input is entered with the write lock free
C37_LocksNeverConflict ==
    /\ kpanic = ""
    /\ last.read_lock = (last.call.pc # "idle")
    /\ last.write_lock = (last.irq = "recv_input")

\* the PIT interrupt has been taken in the middle of a read that holds the
\* read lock, after a key arrived during the same read
C37_Witness ==
    /\ last.read_lock
    /\ last.call.caller = "read"
    /\ last.call.pc = "read_copy"
    /\ timer_fired
    /\ console.wpos # console.epos

----------------------------------------------------------------------------
(* Kernel space in the address spaces of the processes *)

\* calls of map for a kernel page in one run
MaxKernelMaps == 2
\* the kernel pages that get mapped: one under a pagetable MemoryMapper::init
\* has created, the others under a page-directory slot that has no pagetable yet
KernelMapPages == {KernelBasePage + BootMetaFrame + MaxHeapPages} \cup LatePages
\* the kernel pages that are compared
KernelSpacePages == HeapPages \cup LatePages \cup {KernelPage, PageInfoBasePage}

KernelMapAccount(path, page, maps) ==
    [path |-> path, page |-> page, maps |-> maps, unchecked |-> FALSE, ebx_unchecked |-> FALSE]

InitKernelMap ==
    /\ InitMem(LoadedMem)
    /\ scheduler = InitScheduler(cr3)
    /\ files = <<[kind |-> "console", pipe |-> 0]>>
    /\ pipes = <<>>
    /\ console = [rpos |-> 0, epos |-> 0, wpos |-> 0, buf |-> <<>>]
    /\ frame = UserFrame
    /\ kmode = "user"
    /\ pending = "noop"
    /\ iflag = TRUE
    /\ timer_fired = FALSE
    /\ globals = GlobalsBooted
    /\ last = KernelMapAccount("none", 0, 0)

\* a kernel path other than the mapping of a kernel page has ended in K
KernelMapDone(K) == Commit([K EXCEPT !.last = KernelMapAccount(K.last.path, 0, last.maps)])

\* the frame a.r has been allocated and is mapped at the kernel page
KernelPageMapped(a, page) ==
    Commit([KState EXCEPT
              !.mem = IF a.r = 0 THEN Panic(a.m, "out of memory")
                      ELSE map(a.m, a.r, page, MappingFlags(TRUE, FALSE)),
              !.last = KernelMapAccount("map", page, last.maps + 1)])

\* the kernel, at work for the running process, maps a frame at an unused kernel page
KernelMap(page) ==
    /\ kmode = "user"
    /\ last.maps < MaxKernelMaps
    /\ ~get_mapping(MemState, page).present
    /\ KernelPageMapped(Alloc(MemState), page)

\* fork
KernelMapFork ==
    /\ kmode = "user"
    /\ Offered(SysFrame(SysFork, <<0, 0>>, ResultPtr, 0, 0, <<0, 0>>, 0), MaxMemPid, MaxPipeLen)
    /\ KernelMapDone(syscall(Enter(SysFrame(SysFork, <<0, 0>>, ResultPtr, 0, 0, <<0, 0>>, 0),
                                   "none", TRUE)))

\* the PIT interrupt while a process runs
KernelMapTimer ==
    /\ kmode = "user"
    /\ KernelMapDone(handle_interrupt(Enter(frame, "timer", FALSE), TRUE))

\* continuation(frame), then the return to userspace
KernelMapContinuation ==
    /\ kmode = "cont"
    /\ KernelMapDone(Iret([KState EXCEPT !.last.path = "none"]))

NextKernelMap ==
    \/ \E page \in KernelMapPages : KernelMap(page)
    \/ KernelMapFork
    \/ KernelMapTimer
    \/ KernelMapContinuation

SpecKernelMap == InitKernelMap /\ [][NextKernelMap]_vars

\* the entry the CPU uses for a page while the process pid runs
PteIn(M, S, pid, page) == HwPte([M EXCEPT !.cr3 = S.processes[pid].env.cr3], page)

\* C38: every kernel page has the same mapping in the address spaces of all
\* processes, also a page that was mapped after a fork under a page-directory
\* slot that had no pagetable
C38_KernelSpaceShared ==
    kpanic = "" /\ kmode = "user" =>
        \A p, q \in DOMAIN scheduler.processes : \A page \in KernelSpacePages :
            PteIn(MemState, scheduler, p, page) = PteIn(MemState, scheduler, q, page)

----------------------------------------------------------------------------
(* The bump allocator over the memory map of the BIOS *)

(* A memory map is a sequence of regions [start, length, kind, attributes],
   sorted by start as BumpAllocator::new leaves it. Addresses are bytes; the
   maps of the model lie far below 2^32, so that page_align_up and checked_add
   never return None.
   last holds the allocator and the account:
     bump     : [next_addr, first_active_region_idx, memory_map], next_addr
                NoAddr for None
     results  : the addresses alloc has returned, oldest first *)

NoAddr == 0 - 1
\* region starts and lengths, and the addresses BumpAllocator::new starts from
RegionStarts == {0, 2048, 4096, 10240}
RegionLengths == {1024, 4096, 10240}
StartAddrs == {0, 100, 4096}
\* regions in a map, and calls of alloc in one run
MaxRegions == 2
MaxBumpAllocs == 3

MemoryRegions ==
    [start : RegionStarts, length : RegionLengths, kind : {1, 2}, attributes : {0, 1}]

\* MemoryRegion::should_ignore, is_usable, is_after, is_before
should_ignore(region) == region.attributes % 2 = 0
is_usable(region) == region.kind = 1
is_after(region, start, length) == region.start > start /\ length <= region.start - start
is_before(region, start) == start > region.start /\ region.length <= start - region.start

\* mmu::page_align_up
page_align_up(addr) == ((addr + PAGE_SIZE - 1) \div PAGE_SIZE) * PAGE_SIZE

\* the memory maps: every sequence of regions in the order of their starts
SortedMaps ==
    {mm \in UNION {[1 .. n -> MemoryRegions] : n \in 1 .. MaxRegions} :
        \A i \in 1 .. Len(mm) - 1 : mm[i].start <= mm[i + 1].start}

RECURSIVE find_next_for(_, _, _, _, _)
RECURSIVE find_next_while(_, _, _)

\* find_next: the page at addr intersects the region
find_next_intersects(B, addr, i, region) ==
    IF is_usable(region) THEN find_next_for(B, addr, i + 1, FALSE, TRUE)
    ELSE find_next_while(B, page_align_up(region.start + region.length), FALSE)

\* find_next: the for loop, at the i-th region of the map
find_next_for(B, addr, i, is_first, usable) ==
    IF i > Len(B.memory_map) THEN find_next_while(B, addr, usable)
    ELSE IF ~should_ignore(B.memory_map[i]) /\ is_after(B.memory_map[i], addr, PAGE_SIZE)
    THEN IF is_first
         THEN find_next_intersects(B, page_align_up(B.memory_map[i].start), i, B.memory_map[i])
         ELSE find_next_while(B, addr, usable)
    ELSE IF should_ignore(B.memory_map[i]) \/ is_before(B.memory_map[i], addr)
    THEN find_next_for(IF is_first THEN [B EXCEPT !.first_active_region_idx = @ + 1] ELSE B,
                       addr, i + 1, is_first, usable)
    ELSE find_next_intersects(B, addr, i, B.memory_map[i])

\* find_next: the while loop
find_next_while(B, addr, usable) ==
    IF usable THEN [b |-> B, r |-> addr]
    ELSE IF B.first_active_region_idx >= Len(B.memory_map) THEN [b |-> B, r |-> NoAddr]
    ELSE find_next_for(B, addr, B.first_active_region_idx + 1, TRUE, FALSE)

\* BumpAllocator::find_next : [b |-> the allocator after, r |-> the address or NoAddr]
find_next(B, addr) == find_next_while(B, page_align_up(addr), FALSE)

\* next_addr = find_next(...)
set_next_addr(f) == [f.b EXCEPT !.next_addr = f.r]

\* BumpAllocator::new, after the sort
Bump_new(memory_map, start_addr) ==
    set_next_addr(find_next([next_addr |-> NoAddr, first_active_region_idx |-> 0,
                             memory_map |-> memory_map], start_addr))

\* BumpAllocator::alloc
Bump_alloc(B) ==
    IF B.next_addr = NoAddr THEN [b |-> B, r |-> NoAddr]
    ELSE [b |-> set_next_addr(find_next(B, B.next_addr + PAGE_SIZE)), r |-> B.next_addr]

BumpAccount(bump, results) ==
    [path |-> "none", unchecked |-> FALSE, ebx_unchecked |-> FALSE,
     bump |-> bump, results |-> results]

InitBump ==
    /\ InitMem(LoadedMem)
    /\ scheduler = InitScheduler(cr3)
    /\ files = <<[kind |-> "console", pipe |-> 0]>>
    /\ pipes = <<>>
    /\ console = [rpos |-> 0, epos |-> 0, wpos |-> 0, buf |-> <<>>]
    /\ frame = UserFrame
    /\ kmode = "user"
    /\ pending = "noop"
    /\ iflag = TRUE
    /\ timer_fired = FALSE
    /\ globals = GlobalsBooted
    /\ \E memory_map \in SortedMaps, start_addr \in StartAddrs :
          last = BumpAccount(Bump_new(memory_map, start_addr), <<>>)

\* alloc has returned a.r
BumpAllocated(a) ==
    /\ last' = BumpAccount(a.b, IF a.r = NoAddr THEN last.results ELSE Append(last.results, a.r))
    /\ UNCHANGED <<phys, info, palloc, cr3, kpt, kpanic, scheduler, files, pipes, console,
                   frame, kmode, pending, iflag, timer_fired, globals, shadow>>

BumpAllocStep ==
    /\ Len(last.results) < MaxBumpAllocs
    /\ last.bump.next_addr # NoAddr
    /\ BumpAllocated(Bump_alloc(last.bump))

NextBump == BumpAllocStep

SpecBump == InitBump /\ [][NextBump]_vars

\* the page at addr and the region have a byte in common
Intersects(region, addr) ==
    region.start < addr + PAGE_SIZE /\ addr < region.start + region.length
\* the page at addr lies inside the region
Inside(region, addr) ==
    region.start <= addr /\ addr + PAGE_SIZE <= region.start + region.length

RegionsOf(B) == {B.memory_map[i] : i \in DOMAIN B.memory_map}

\* C39: every address alloc returns is page-aligned, its page lies inside a
\* usable region that is not ignored and meets no reserved region that is not
\* ignored, and the addresses increase
C39_BumpInsideUsable ==
    /\ \A i \in DOMAIN last.results :
          /\ last.results[i] % PAGE_SIZE = 0
          /\ \E region \in RegionsOf(last.bump) :
                is_usable(region) /\ ~should_ignore(region) /\ Inside(region, last.results[i])
          /\ \A region \in RegionsOf(last.bump) :
                ~is_usable(region) /\ ~should_ignore(region) => ~Intersects(region, last.results[i])
    /\ \A i \in 1 .. Len(last.results) - 1 : last.results[i] < last.results[i + 1]

----------------------------------------------------------------------------
(* The capacity of a pipe (specification SpecCap): the first process has made
   a pipe, which is empty or holds PIPE_BUF_LEN bytes, and has forked; both
   processes read one byte into the bss page, with the result slot there too,
   write none or two of the bytes 7, 0 of the data page, and close the read
   descriptor *)

CapWriteLens == {0, 2}
CapReadPtr == <<ImageBssPage, 8>>
CapReadResult == <<ImageBssPage, 0>>
\* how far from empty and from full the programs still write
CapSlack == 2

CapFrames ==
    {SysFrame(SysClose, ArgPtr, <<0, 0>>, PipeReadFd, 0, <<0, 0>>, 0)}
    \cup {SysFrame(SysRead, ArgPtr, CapReadResult, PipeReadFd, 0, CapReadPtr, 1)}
    \cup {SysFrame(SysWrite, ArgPtr, ResultPtr, PipeWriteFd, 0, BufPtr, n) : n \in CapWriteLens}

\* the bytes before the last one at the tail of a nearly full pipe are still
\* those it held at first
TailKept(p) == p[Len(p) - 2] = 7 /\ p[Len(p) - 1] = 7

\* the programs write to a pipe that is nearly empty or nearly full, and read
\* from one that is nearly empty, or nearly full with at most one written
\* byte at its tail
CapOffered(fr) ==
    /\ kmode = "user"
    /\ fr.eax = SysRead =>
          \/ Len(pipes[1]) <= CapSlack
          \/ Len(pipes[1]) >= PIPE_BUF_LEN - 1 /\ TailKept(pipes[1])
    /\ fr.eax = SysWrite =>
          Len(pipes[1]) < CapSlack - 1 \/ Len(pipes[1]) >= PIPE_BUF_LEN - CapSlack

NextCap ==
    \/ \E fr \in CapFrames : CapOffered(fr) /\ UserSyscall(fr)
    \/ TimerInterrupt
    \/ RunContinuation

SpecCap == InitBlock /\ [][NextCap]_vars

\* the number of bytes the pipe has room for out of len
CapCount(len) == Min(len, PIPE_BUF_LEN - Len(pipes[1]))

\* the outcome r of File::write for len bytes of the running process is: the
\* first CapCount(len) bytes of the buffer are at the tail, Ok(that count)
FileWriteAccepts(r, len) ==
    /\ r.k.pipes[1] = pipes[1] \o SubSeq(BufBytes(MemState, scheduler,
                                                  scheduler.current_process, len),
                                         1, CapCount(len))
    /\ r.val = <<0, CapCount(len)>>

\* PipeWrite::write, called in any state in which a process runs that holds the
\* write descriptor while the read half is open
CapFileWrite ==
    \A len \in CapWriteLens :
        (/\ kmode = "user"
         /\ get_fd(scheduler, scheduler.current_process, PipeWriteFd) # 0
         /\ HalfOpen(scheduler, files, 1, "piperead"))
        => FileWriteAccepts(File_write(KState,
                                       get_fd(scheduler, scheduler.current_process, PipeWriteFd),
                                       BufPtr, len), len)

\* a step that dispatches the write syscall of the current process for len bytes
CapWriteOutcome(len) ==
    (/\ get_fd(scheduler, scheduler.current_process, PipeWriteFd) # 0
     /\ kpanic' = "")
    => /\ (HalfOpen(scheduler, files, 1, "piperead") /\ Len(pipes[1]) # PIPE_BUF_LEN)
          => /\ pipes'[1] = pipes[1] \o SubSeq(BufBytes(MemState, scheduler,
                                                        scheduler.current_process, len),
                                               1, CapCount(len))
             /\ ResultSlot(MemState', scheduler', scheduler.current_process)
                  = <<0, CapCount(len)>>
       /\ (/\ can_write(scheduler, files, pipes, console,
                        get_fd(scheduler, scheduler.current_process, PipeWriteFd))
           /\ len >= 1)
          => /\ ResultSlot(MemState', scheduler', scheduler.current_process)[1] = 0
             /\ ResultSlot(MemState', scheduler', scheduler.current_process)[2] >= 1

\* C40: a pipe never holds more than PIPE_BUF_LEN bytes; PipeWrite::write with
\* the read half open appends the first min(len, PIPE_BUF_LEN - length) bytes
\* of the buffer and returns that count, and so does a write syscall that is
\* not blocked; a write syscall of at least one byte that finds the pipe
\* writable returns a count of at least one
C40_PipeBounded ==
    /\ [](\A i \in DOMAIN pipes : Len(pipes[i]) <= PIPE_BUF_LEN)
    /\ []CapFileWrite
    /\ [][/\ \A fr \in CapFrames :
               (fr.eax = SysWrite /\ UserSyscall(fr)) => CapWriteOutcome(fr.arg.len)
          /\ (Redispatch /\ frame.eax = SysWrite /\ RunContinuation)
               => CapWriteOutcome(frame.arg.len)]_vars

\* a write of two bytes to a pipe one byte short of full has been given the
\* count 1, and the pipe is full
C40_Witness ==
    /\ kmode = "user"
    /\ Len(pipes[1]) = PIPE_BUF_LEN
    /\ HalfOpen(scheduler, files, 1, "piperead")
    /\ ResultSlot(MemState, scheduler, scheduler.current_process) = <<0, 1>>

====
